---- MODULE Spec2Model ----
(***************************************************************************)
(* Context-file discovery of yelm: the pattern registry, the breadth-first *)
(* directory scanner, the hierarchy resolver (ContextFileDiscovery) and    *)
(* its modification-time cache.                                            *)
(*                                                                         *)
(* Paths are absolute and normalised; a path is the sequence of its        *)
(* components, so path.join is Append/\o, path.dirname drops the last      *)
(* component and path.resolve leaves the path as it is.                    *)
(***************************************************************************)
EXTENDS Integers, Sequences, FiniteSets, TLC

VARIABLES
  dirs,      \* the directories that exist
  files,     \* the regular files that exist
  mtime,     \* modification time of every directory
  now,       \* Date.now()
  cfg,       \* ContextFileDiscovery.config
  oracle,    \* paths the gitignore oracle (fileService) excludes
  readdirReversed, \* fs.readdir lists entries in the opposite order
  unreadable, \* directories fs.readdir fails on
  requireDefined, \* whether the module system of the build defines require
  cache,     \* ContextFileDiscovery.cache, in Map insertion order
  metrics,   \* ContextFileDiscovery.cacheMetrics
  ncalls,    \* discover calls started so far (also numbers the cache entries)
  obs,       \* what the last completed operation did and returned
  calls      \* the discover calls in flight (interleaved specification)

vars == <<dirs, files, mtime, now, cfg, oracle, unreadable, requireDefined, readdirReversed, cache, metrics, ncalls, obs, calls>>

----------------------------------------------------------------------------
(* Bounds of the model *)

MaxDepth == 3          \* config.maxDepth of the discovery specifications
MaxDirs == 3           \* largest maxDirs the scanner is run with
MaxCacheSize == 2      \* config.maxCacheSize when it is set
MaxCacheAge == 1       \* config.maxCacheAge when it is set (clock ticks)
MaxEnv == 2            \* clock ticks and directory modifications per behaviour
MaxCalls == 3          \* discover calls per behaviour
MaxInFlight == 2       \* concurrent discover calls
MaxLegacy == 3         \* longest list of legacy files handed to suggestMigration

\* A configuration number is the set holding it, or the empty set when the
\* configuration record has no such key (JavaScript's undefined).
Undefined == {}

----------------------------------------------------------------------------
(* The file system universe *)

Root == <<>>
Home == <<"home">>
Yelm == <<"home", ".yelm">>
Gemini == <<"home", ".gemini">>
Proj == <<"home", "proj">>
Git == <<"home", "proj", ".git">>
NodeModules == <<"home", "proj", "node_modules">>
NodePkg == <<"home", "proj", "node_modules", "pkg">>
Src == <<"home", "proj", "src">>
Cursor == <<"home", "proj", "src", ".cursor">>
Lib == <<"home", "proj", "src", "lib">>

YelmAgents == Append(Yelm, "agents.md")
GeminiGemini == Append(Gemini, "GEMINI.md")
HomeAgents == Append(Home, "agents.md")
ProjClaude == Append(Proj, "CLAUDE.md")
NodeAgents == Append(NodeModules, "agents.md")
SrcAgents == Append(Src, "agents.md")
SrcGemini == Append(Src, "GEMINI.md")
CursorRules == Append(Cursor, "rules")
SrcExt == Append(Src, "ext.md")
LibClaude == Append(Lib, "CLAUDE.md")
GeminiAgents == Append(Gemini, "agents.md")
YelmGemini == Append(Yelm, "GEMINI.md")

AlwaysDirs == {Root, Home, Proj, Src}
DirUniverse == {Root, Home, Yelm, Gemini, Proj, Git, NodeModules, NodePkg, Src, Cursor, Lib}
FileUniverse == {YelmAgents, GeminiGemini, HomeAgents, ProjClaude, NodeAgents,
                 SrcAgents, SrcGemini, CursorRules, SrcExt, LibClaude}

\* The order in which fs.readdir lists entries (one fixed order).
PathOrder == <<Gemini, Yelm, HomeAgents, Proj, Git, ProjClaude, NodeModules, Src,
               Cursor, SrcGemini, SrcAgents, SrcExt, Lib, Home,
               YelmAgents, GeminiGemini, NodeAgents, NodePkg, CursorRules, LibClaude,
               YelmGemini, GeminiAgents>>

dirname(p) == IF Len(p) = 0 THEN p ELSE SubSeq(p, 1, Len(p) - 1)
basename(p) == IF Len(p) = 0 THEN "" ELSE p[Len(p)]

isDirectory(p) == p \in dirs
isFile(p) == p \in files
exists(p) == isDirectory(p) \/ isFile(p)

\* Every directory a file of fs lives in, up to the root.
RECURSIVE Ancestors(_)
Ancestors(p) == IF Len(p) = 0 THEN {p} ELSE {p} \cup Ancestors(dirname(p))

DirsOf(fs) == UNION {Ancestors(dirname(f)) : f \in fs}

\* The universe's entries of each directory, in readdir order.
Children ==
  [d \in DirUniverse |-> SelectSeq(PathOrder, LAMBDA p : Len(p) = Len(d) + 1 /\ dirname(p) = d)]

reverse(list) == [i \in 1..Len(list) |-> list[Len(list) + 1 - i]]

\* fs.readdir promises no order: the entries come in the one order or in the
\* opposite one.
readdir(d) ==
  IF readdirReversed
    THEN reverse(SelectSeq(Children[d], exists))
    ELSE SelectSeq(Children[d], exists)

\* The try/catch around fs.readdir in scanDirectory: a directory that cannot
\* be read contributes no entries.
entriesOf(d) == IF d \in unreadable THEN <<>> ELSE readdir(d)

----------------------------------------------------------------------------
(* Pattern registry *)

DEFAULT_CONTEXT_HIERARCHY == <<"agents.md", "CLAUDE.md", "GEMINI.md", ".cursor/rules">>

resolveContextFilePath(pattern, directory) ==
  IF pattern = ".cursor/rules"
    THEN directory \o <<".cursor", "rules">>
    ELSE Append(directory, pattern)

\* Array.prototype.indexOf: 0-based, -1 when absent.
indexOf(seq, x) ==
  IF \E i \in 1..Len(seq) : seq[i] = x
    THEN (CHOOSE i \in 1..Len(seq) : seq[i] = x /\ \A j \in 1..(i - 1) : seq[j] # x) - 1
    ELSE -1

----------------------------------------------------------------------------
(* Configuration *)

DefaultIgnorePatterns ==
  {"node_modules", ".git", ".svn", ".hg", "dist", "build", "coverage",
   ".next", ".cache", "tmp", "temp"}

DEFAULT_CONTEXT_CONFIG ==
  [hierarchy |-> DEFAULT_CONTEXT_HIERARCHY,
   globalDirs |-> <<".yelm", ".gemini">>,
   maxDepth |-> MaxDepth,
   ignorePatterns |-> DefaultIgnorePatterns,
   cacheEnabled |-> TRUE,
   maxDirs |-> 2 * MaxDirs,
   maxCacheSize |-> {MaxCacheSize},
   maxCacheAge |-> {MaxCacheAge}]

\* [...new Set(seq)]: the elements of seq in order of first appearance.
RECURSIVE dedupe(_, _)
dedupe(seq, seen) ==
  IF seq = <<>>
    THEN <<>>
    ELSE IF Head(seq) \in seen
      THEN dedupe(Tail(seq), seen)
      ELSE <<Head(seq)>> \o dedupe(Tail(seq), seen \cup {Head(seq)})

\* ContextConfig.buildConfig. A setting the caller leaves out is a key missing
\* from userSettings. The record it builds has no maxCacheSize and no
\* maxCacheAge key, so ContextFileDiscovery reads both as undefined.
buildConfig(userSettings) ==
  LET given(key) == key \in DOMAIN userSettings IN
  [hierarchy |-> dedupe(IF given("hierarchy") THEN userSettings.hierarchy
                                              ELSE DEFAULT_CONTEXT_CONFIG.hierarchy, {}),
   globalDirs |-> dedupe((IF given("globalDirs") THEN userSettings.globalDirs ELSE <<>>)
                           \o DEFAULT_CONTEXT_CONFIG.globalDirs, {}),
   maxDepth |-> IF given("maxDepth") THEN userSettings.maxDepth
                                     ELSE DEFAULT_CONTEXT_CONFIG.maxDepth,
   ignorePatterns |-> DEFAULT_CONTEXT_CONFIG.ignorePatterns,
   cacheEnabled |-> IF given("cacheEnabled") THEN userSettings.cacheEnabled
                                             ELSE DEFAULT_CONTEXT_CONFIG.cacheEnabled,
   maxDirs |-> IF given("maxDirs") THEN userSettings.maxDirs
                                   ELSE DEFAULT_CONTEXT_CONFIG.maxDirs,
   maxCacheSize |-> Undefined,
   maxCacheAge |-> Undefined]

\* The limits of ContextConfig.validateConfig.
ConfigDepthLimit == 50
ConfigDirsLimit == 1000

\* entry.includes('..') and entry.includes('/') over the entries of the model.
includesDotDot(entry) == entry \in {"../secret.md"}
includesSlash(entry) == entry \in {"../secret.md", "docs/notes.md", ".cursor/rules"}
isAbsolute(dir) == dir \in {"/etc"}

\* ContextConfig.validateConfig: TRUE when it accepts c (no ConfigurationError).
validateContextConfig(c) ==
  /\ Len(c.hierarchy) # 0
  /\ Len(c.globalDirs) # 0
  /\ ~(c.maxDepth < 1 \/ c.maxDepth > ConfigDepthLimit)
  /\ ~(c.maxDirs < 1 \/ c.maxDirs > ConfigDirsLimit)
  /\ \A i \in 1..Len(c.hierarchy) :
       /\ c.hierarchy[i] # ""
       /\ ~(includesDotDot(c.hierarchy[i])
             \/ (includesSlash(c.hierarchy[i]) /\ c.hierarchy[i] # ".cursor/rules"))
  /\ \A i \in 1..Len(c.globalDirs) :
       /\ c.globalDirs[i] # ""
       /\ ~(includesDotDot(c.globalDirs[i]) \/ isAbsolute(c.globalDirs[i]))

\* ContextFileDiscovery.validateConfig: TRUE when the constructor accepts c
\* (no ConfigurationError).
validateConfig(c) ==
  /\ Len(c.hierarchy) # 0
  /\ Len(c.globalDirs) # 0
  /\ ~(c.maxDepth < 1)
  /\ ~(c.maxDirs < 1)

\* JavaScript's a < b and a > b with b possibly undefined (then false).
jsLess(a, b) == \E n \in b : a < n
jsGreater(a, b) == \E n \in b : a > n

----------------------------------------------------------------------------
(* Directory scanner *)

\* shouldIgnoreDirectory knowing the version-control directory only.
ignoresGitOnly(dir, ignorePatterns) == basename(dir) = ".git" /\ ".git" \in ignorePatterns

shouldIgnoreDirectory(dir, ignorePatterns) == basename(dir) \in ignorePatterns

\* createFileInfo: <<>> when the oracle excludes the file, else its one record.
createFileInfo(filePath, depth, orc) ==
  IF filePath \in orc
    THEN <<>>
    ELSE <<[path |-> filePath, name |-> basename(filePath),
            directory |-> dirname(filePath), depth |-> depth]>>

\* The for-loop with sub-directories put at the head of the queue (a
\* depth-first traversal).
RECURSIVE scanEntriesDepthFirst(_, _, _, _, _)
scanEntriesDepthFirst(entries, depth, queue, out, orc) ==
  IF entries = <<>>
    THEN [queue |-> queue, out |-> out]
    ELSE LET e == Head(entries) IN
         IF isDirectory(e)
           THEN scanEntriesDepthFirst(Tail(entries), depth,
                                      <<[dir |-> e, depth |-> depth + 1]>> \o queue, out, orc)
           ELSE scanEntriesDepthFirst(Tail(entries), depth, queue,
                                      out \o createFileInfo(e, depth, orc), orc)

\* The for-loop over one directory's entries: sub-directories join the queue,
\* regular files join the result.
RECURSIVE scanEntries(_, _, _, _, _)
scanEntries(entries, depth, queue, out, orc) ==
  IF entries = <<>>
    THEN [queue |-> queue, out |-> out]
    ELSE LET e == Head(entries) IN
         IF isDirectory(e)
           THEN scanEntries(Tail(entries), depth,
                            Append(queue, [dir |-> e, depth |-> depth + 1]), out, orc)
           ELSE scanEntries(Tail(entries), depth, queue,
                            out \o createFileInfo(e, depth, orc), orc)

\* The while-loop of scanDirectory. `scanned` is the sequence of directories
\* counted in directoriesScanned.
RECURSIVE scanLoop(_, _, _, _, _)
scanLoop(queue, visited, scanned, out, options) ==
  IF queue = <<>> \/ ~(Len(scanned) < options.maxDirs)
    THEN [files |-> out, scanned |-> scanned]
    ELSE LET item == Head(queue)
             rest == Tail(queue)
             v2 == visited \cup {item.dir}
         IN  IF item.dir \in visited
               THEN scanLoop(rest, visited, scanned, out, options)
             ELSE IF item.depth > options.maxDepth
               THEN scanLoop(rest, v2, scanned, out, options)
             ELSE IF shouldIgnoreDirectory(item.dir, options.ignorePatterns)
               THEN scanLoop(rest, v2, scanned, out, options)
             ELSE IF item.dir \in options.oracle
               THEN scanLoop(rest, v2, scanned, out, options)
             ELSE LET r == scanEntries(entriesOf(item.dir), item.depth, rest, out,
                                       options.oracle)
                  IN  scanLoop(r.queue, v2, Append(scanned, item.dir), r.out, options)

\* What scanDirectory throws for a root that is no directory: the rejection of
\* fs.stat as it is (rethrown by the catch), or a plain Error for a root that
\* is something else than a directory.
NoError == [class |-> "none", code |-> "none"]
rootError(rootDir) ==
  IF ~exists(rootDir)
    THEN [class |-> "Error", code |-> "ENOENT"]
    ELSE [class |-> "Error", code |-> "none"]

\* scanDirectory with the limit test written > instead of >=.
scanDirectoryStrictLimit(rootDir, options) ==
  IF ~isDirectory(rootDir)
    THEN [threw |-> TRUE, error |-> rootError(rootDir), files |-> <<>>, scanned |-> <<>>,
          directoriesScanned |-> 0, limitReached |-> FALSE]
    ELSE LET r == scanLoop(<<[dir |-> rootDir, depth |-> 0]>>, {}, <<>>, <<>>, options)
         IN  [threw |-> FALSE, error |-> NoError, files |-> r.files, scanned |-> r.scanned,
              directoriesScanned |-> Len(r.scanned),
              limitReached |-> Len(r.scanned) > options.maxDirs]

scanDirectory(rootDir, options) ==
  IF ~isDirectory(rootDir)
    THEN [threw |-> TRUE, error |-> rootError(rootDir), files |-> <<>>, scanned |-> <<>>,
          directoriesScanned |-> 0, limitReached |-> FALSE]
    ELSE LET r == scanLoop(<<[dir |-> rootDir, depth |-> 0]>>, {}, <<>>, <<>>, options)
         IN  [threw |-> FALSE, error |-> NoError, files |-> r.files, scanned |-> r.scanned,
              directoriesScanned |-> Len(r.scanned),
              limitReached |-> Len(r.scanned) >= options.maxDirs]

\* buildFileIndex, byDirectory only: the directories in order of first
\* appearance (the Map's key order).
RECURSIVE indexDirectories(_, _)
indexDirectories(fileInfos, seen) ==
  IF fileInfos = <<>>
    THEN <<>>
    ELSE LET d == Head(fileInfos).directory IN
         IF d \in seen
           THEN indexDirectories(Tail(fileInfos), seen)
           ELSE <<d>> \o indexDirectories(Tail(fileInfos), seen \cup {d})

filesInDirectory(fileInfos, d) == SelectSeq(fileInfos, LAMBDA f : f.directory = d)

\* The inner loop of findContextFiles: <<>> or the best file of one directory.
RECURSIVE bestFileOf(_, _, _)
bestFileOf(fs, best, contextHierarchy) ==
  IF fs = <<>>
    THEN best
    ELSE LET f == Head(fs)
             priority == indexOf(contextHierarchy, f.name)
         IN  IF priority # -1 /\
                (best = <<>> \/ priority < indexOf(contextHierarchy, best[1].name))
               THEN bestFileOf(Tail(fs), <<f>>, contextHierarchy)
               ELSE bestFileOf(Tail(fs), best, contextHierarchy)

RECURSIVE findContextFilesIn(_, _, _)
findContextFilesIn(directories, fileInfos, contextHierarchy) ==
  IF directories = <<>>
    THEN <<>>
    ELSE bestFileOf(filesInDirectory(fileInfos, Head(directories)), <<>>, contextHierarchy)
         \o findContextFilesIn(Tail(directories), fileInfos, contextHierarchy)

findContextFiles(fileInfos, contextHierarchy) ==
  findContextFilesIn(indexDirectories(fileInfos, {}), fileInfos, contextHierarchy)

----------------------------------------------------------------------------
(* Hierarchy resolver: one fresh discovery pass *)

homedir == Home

\* checkFile / findInDirectory: <<>> or the record of the first pattern of the
\* hierarchy that resolves to a regular file (level 0, set by the caller).
RECURSIVE findFrom(_, _, _)
findFrom(directory, hierarchy, i) ==
  IF i > Len(hierarchy)
    THEN <<>>
    ELSE LET filePath == resolveContextFilePath(hierarchy[i], directory) IN
         IF isFile(filePath)
           THEN <<[path |-> filePath, type |-> hierarchy[i],
                   priority |-> i - 1, level |-> 0]>>
           ELSE findFrom(directory, hierarchy, i + 1)

findInDirectory(directory) ==
  IF ~exists(directory) THEN <<>> ELSE findFrom(directory, cfg.hierarchy, 1)

withLevel(found, level) ==
  IF found = <<>> THEN <<>> ELSE <<[found[1] EXCEPT !.level = level]>>

RECURSIVE globalFrom(_)
globalFrom(i) ==
  IF i > Len(cfg.globalDirs)
    THEN <<>>
    ELSE LET result == findInDirectory(Append(homedir, cfg.globalDirs[i])) IN
         IF result # <<>> THEN withLevel(result, -1) ELSE globalFrom(i + 1)

discoverGlobalFiles == globalFrom(1)

\* currentDir.endsWith(path.join(homedir(), dir)) for some global directory.
isGlobalDir(currentDir) ==
  \E i \in 1..Len(cfg.globalDirs) :
    LET g == Append(homedir, cfg.globalDirs[i]) IN
      /\ Len(currentDir) >= Len(g)
      /\ SubSeq(currentDir, Len(currentDir) - Len(g) + 1, Len(currentDir)) = g

\* findProjectRoot: the set holding the first ancestor with a .git directory,
\* empty when there is none (null).
RECURSIVE findProjectRoot(_)
findProjectRoot(currentDir) ==
  IF currentDir = dirname(currentDir)
    THEN {}
    ELSE IF isDirectory(Append(currentDir, ".git"))
      THEN {currentDir}
      ELSE findProjectRoot(dirname(currentDir))

RECURSIVE walkUp(_, _, _, _, _)
walkUp(currentDir, level, visited, stopDir, results) ==
  IF currentDir = dirname(currentDir) \/ currentDir \in visited
    THEN results
    ELSE IF isGlobalDir(currentDir)
      THEN walkUp(dirname(currentDir), level, visited \cup {currentDir}, stopDir, results)
      ELSE LET r2 == results \o withLevel(findInDirectory(currentDir), level) IN
           IF currentDir = stopDir \/ level + 1 > cfg.maxDepth
             THEN r2
             ELSE walkUp(dirname(currentDir), level + 1, visited \cup {currentDir},
                         stopDir, r2)

\* The fallback method: the upward walk.
discoverProjectFiles(startDir) ==
  LET projectRoot == findProjectRoot(startDir)
      stopDir == IF projectRoot # {}
                   THEN dirname(CHOOSE p \in projectRoot : TRUE)
                   ELSE dirname(homedir)
  IN  walkUp(startDir, 0, {}, stopDir, <<>>)

scanForContextFiles(rootDir, orc) ==
  scanDirectory(rootDir, [maxDepth |-> cfg.maxDepth, maxDirs |-> cfg.maxDirs,
                          ignorePatterns |-> cfg.ignorePatterns, oracle |-> orc])

RECURSIVE toResults(_)
toResults(fileInfos) ==
  IF fileInfos = <<>>
    THEN <<>>
    ELSE LET f == Head(fileInfos)
             priority == indexOf(cfg.hierarchy, f.name)
         IN  (IF priority # -1
                THEN <<[path |-> f.path, type |-> f.name,
                        priority |-> priority, level |-> f.depth]>>
                ELSE <<>>) \o toResults(Tail(fileInfos))

\* discoverProjectFilesOptimized with the scan started one directory too high.
discoverFromParent(startDir, orc) ==
  LET scan == scanForContextFiles(dirname(startDir), orc) IN
    IF scan.threw
      THEN discoverProjectFiles(startDir)
      ELSE toResults(findContextFiles(scan.files, cfg.hierarchy))

discoverProjectFilesOptimized(startDir, orc) ==
  LET scan == scanForContextFiles(startDir, orc) IN
    IF scan.threw
      THEN discoverProjectFiles(startDir)
      ELSE toResults(findContextFiles(scan.files, cfg.hierarchy))

\* The priority and the level processExtensionFiles gives an extension file.
ExtensionPriority == 999
ExtensionLevel == 1000

RECURSIVE processExtensionFiles(_)
processExtensionFiles(extensionFiles) ==
  IF extensionFiles = <<>>
    THEN <<>>
    ELSE (IF isFile(Head(extensionFiles))
            THEN <<[path |-> Head(extensionFiles), type |-> "extension",
                    priority |-> ExtensionPriority, level |-> ExtensionLevel]>>
            ELSE <<>>) \o processExtensionFiles(Tail(extensionFiles))

\* The comparator of discover's sort: a sorts strictly before b.
sortsBefore(a, b) ==
  IF a.level # b.level THEN a.level < b.level ELSE a.priority < b.priority

\* Array.prototype.sort is stable: equal elements keep their order.
RECURSIVE insertSorted(_, _)
insertSorted(x, sorted) ==
  IF sorted = <<>>
    THEN <<x>>
    ELSE IF sortsBefore(x, Head(sorted))
      THEN <<x>> \o sorted
      ELSE <<Head(sorted)>> \o insertSorted(x, Tail(sorted))

\* The sort with the priority comparison left out.
RECURSIVE insertByLevel(_, _)
insertByLevel(x, sorted) ==
  IF sorted = <<>>
    THEN <<x>>
    ELSE IF x.level < Head(sorted).level
      THEN <<x>> \o sorted
      ELSE <<Head(sorted)>> \o insertByLevel(x, Tail(sorted))

RECURSIVE sortResultsByLevelOnly(_)
sortResultsByLevelOnly(results) ==
  IF results = <<>>
    THEN <<>>
    ELSE insertByLevel(results[Len(results)],
                       sortResultsByLevelOnly(SubSeq(results, 1, Len(results) - 1)))

RECURSIVE sortResults(_)
sortResults(results) ==
  IF results = <<>>
    THEN <<>>
    ELSE insertSorted(results[Len(results)], sortResults(SubSeq(results, 1, Len(results) - 1)))

\* Lines 169-188 of discover: global, project and extension files, sorted.
freshDiscover(workingDir, extensionContextFiles, orc) ==
  sortResults(discoverGlobalFiles
              \o discoverProjectFilesOptimized(workingDir, orc)
              \o processExtensionFiles(extensionContextFiles))

----------------------------------------------------------------------------
(* Cache *)

ZeroMetrics == [hits |-> 0, misses |-> 0, evictions |-> 0]

\* Position of the entry under cacheKey in the Map, 0 when there is none.
cacheIndex(c, cacheKey) ==
  IF \E i \in 1..Len(c) : c[i].key = cacheKey
    THEN CHOOSE i \in 1..Len(c) : c[i].key = cacheKey
    ELSE 0

cacheDelete(c, cacheKey) == SelectSeq(c, LAMBDA e : e.key # cacheKey)

\* Map.set: an existing key keeps its place, a new key goes last.
cacheSet(c, e) ==
  IF cacheIndex(c, e.key) # 0
    THEN [c EXCEPT ![cacheIndex(c, e.key)] = e]
    ELSE Append(c, e)

\* dirUnchanged with a failing fs.stat passed over instead of invalidating.
dirUnchangedOrMissing(rec) == ~exists(rec.dir) \/ mtime[rec.dir] = rec.time

\* fs.stat(dir) succeeds and reports the recorded modification time.
dirUnchanged(rec) == exists(rec.dir) /\ mtime[rec.dir] = rec.time

\* isCacheValid with the age test written >= instead of >.
isCacheValidAgeReached(c, m, cacheKey) ==
  LET i == cacheIndex(c, cacheKey) IN
    IF i = 0
      THEN [valid |-> FALSE, cache |-> c, metrics |-> [m EXCEPT !.misses = @ + 1]]
    ELSE IF \E n \in cfg.maxCacheAge : now - c[i].timestamp >= n
      THEN [valid |-> FALSE, cache |-> cacheDelete(c, cacheKey),
            metrics |-> [m EXCEPT !.misses = @ + 1]]
    ELSE LET c2 == [c EXCEPT ![i].lastAccessed = now] IN
         IF \E j \in 1..Len(c[i].dirModTimes) : ~dirUnchanged(c[i].dirModTimes[j])
           THEN [valid |-> FALSE, cache |-> cacheDelete(c2, cacheKey), metrics |-> m]
           ELSE [valid |-> TRUE, cache |-> c2, metrics |-> [m EXCEPT !.hits = @ + 1]]

\* isCacheValid, run without interruption.
isCacheValid(c, m, cacheKey) ==
  LET i == cacheIndex(c, cacheKey) IN
    IF i = 0
      THEN [valid |-> FALSE, cache |-> c, metrics |-> [m EXCEPT !.misses = @ + 1]]
    ELSE IF jsGreater(now - c[i].timestamp, cfg.maxCacheAge)
      THEN [valid |-> FALSE, cache |-> cacheDelete(c, cacheKey),
            metrics |-> [m EXCEPT !.misses = @ + 1]]
    ELSE LET c2 == [c EXCEPT ![i].lastAccessed = now] IN
         IF \E j \in 1..Len(c[i].dirModTimes) : ~dirUnchanged(c[i].dirModTimes[j])
           THEN [valid |-> FALSE, cache |-> cacheDelete(c2, cacheKey), metrics |-> m]
           ELSE [valid |-> TRUE, cache |-> c2, metrics |-> [m EXCEPT !.hits = @ + 1]]

\* The loop of evictIfNeeded with oldestTime never lowered: the key of the last
\* entry accessed before the insert.
RECURSIVE oldestFromLast(_, _, _, _)
oldestFromLast(c, i, oldestTime, oldestKey) ==
  IF i > Len(c)
    THEN oldestKey
    ELSE IF c[i].lastAccessed < oldestTime
      THEN oldestFromLast(c, i + 1, oldestTime, {c[i].key})
      ELSE oldestFromLast(c, i + 1, oldestTime, oldestKey)

\* The loop of evictIfNeeded: the key of the first entry with the smallest
\* lastAccessed below oldestTime, as a set (empty: oldestKey stays null).
RECURSIVE oldestFrom(_, _, _, _)
oldestFrom(c, i, oldestTime, oldestKey) ==
  IF i > Len(c)
    THEN oldestKey
    ELSE IF c[i].lastAccessed < oldestTime
      THEN oldestFrom(c, i + 1, c[i].lastAccessed, {c[i].key})
      ELSE oldestFrom(c, i + 1, oldestTime, oldestKey)

evictIfNeeded(c, m) ==
  IF jsLess(Len(c), cfg.maxCacheSize)
    THEN [cache |-> c, metrics |-> m, evicted |-> {}]
    ELSE LET oldestKey == oldestFrom(c, 1, now, {}) IN
         IF oldestKey # {}
           THEN [cache |-> cacheDelete(c, CHOOSE k \in oldestKey : TRUE),
                 metrics |-> [m EXCEPT !.evictions = @ + 1], evicted |-> oldestKey]
           ELSE [cache |-> c, metrics |-> m, evicted |-> {}]

\* dirsToCheck: the working directory, then each result's directory, once each.
dirsToCheck(workingDir, results) ==
  dedupe(<<workingDir>> \o [i \in 1..Len(results) |-> dirname(results[i].path)], {})

\* The entry holds [...results], an array of its own. id and stored are
\* history: the call that made the entry and the list as it was stored.
cacheResults(c, m, cacheKey, workingDir, results, id) ==
  LET ds == dirsToCheck(workingDir, results) IN
    IF \E i \in 1..Len(ds) : ~exists(ds[i])
      THEN [cache |-> c, metrics |-> m, evicted |-> {}, sizeAtInsert |-> -1]
      ELSE LET ev == evictIfNeeded(c, m)
               entry == [key |-> cacheKey, results |-> results, timestamp |-> now,
                         dirModTimes |-> [i \in 1..Len(ds) |->
                                            [dir |-> ds[i], time |-> mtime[ds[i]]]],
                         lastAccessed |-> now, id |-> id, stored |-> results]
           IN  [cache |-> cacheSet(ev.cache, entry), metrics |-> ev.metrics,
                evicted |-> ev.evicted, sizeAtInsert |-> Len(c)]

getCacheMetrics == [hits |-> metrics.hits, misses |-> metrics.misses,
                    evictions |-> metrics.evictions, size |-> Len(cache)]

----------------------------------------------------------------------------
(* Operations *)

NoObs == [op |-> "none"]

\* The ids of the entries of c.
idsOf(c) == {c[i].id : i \in 1..Len(c)}

\* discover(options), awaited to its end before anything else runs.
Discover(workingDir, ext) ==
  /\ ncalls < MaxCalls
  /\ ncalls' = ncalls + 1
  /\ LET i == cacheIndex(cache, workingDir)
         pre == [hadEntry |-> i # 0,
                 preResults |-> IF i # 0 THEN cache[i].results ELSE <<>>,
                 preId |-> IF i # 0 THEN cache[i].id ELSE 0,
                 preAge |-> IF i # 0 THEN now - cache[i].timestamp ELSE 0,
                 ageOk |-> i # 0 /\ \A n \in cfg.maxCacheAge : now - cache[i].timestamp <= n,
                 dirsSame |-> i # 0 /\ \A j \in 1..Len(cache[i].dirModTimes) :
                                 /\ cache[i].dirModTimes[j].dir \in dirs \cup files
                                 /\ mtime[cache[i].dirModTimes[j].dir]
                                      = cache[i].dirModTimes[j].time,
                 preSize |-> Len(cache),
                 preMetrics |-> metrics]
         v == IF cfg.cacheEnabled
                THEN isCacheValid(cache, metrics, workingDir)
                ELSE [valid |-> FALSE, cache |-> cache, metrics |-> metrics]
     IN  IF v.valid
           THEN /\ cache' = v.cache
                /\ metrics' = v.metrics
                /\ obs' = [op |-> "discover", wd |-> workingDir, ext |-> ext,
                           result |-> v.cache[cacheIndex(v.cache, workingDir)].results,
                           source |-> "cache", scanned |-> {}, evicted |-> {},
                           sizeAtInsert |-> -1, atInsert |-> <<>>, pre |-> pre]
           ELSE LET results == freshDiscover(workingDir, ext, oracle)
                    scan == scanForContextFiles(workingDir, oracle)
                    w == IF cfg.cacheEnabled
                           THEN cacheResults(v.cache, v.metrics, workingDir, workingDir,
                                             results, ncalls + 1)
                           ELSE [cache |-> v.cache, metrics |-> v.metrics,
                                 evicted |-> {}, sizeAtInsert |-> -1]
                IN  /\ cache' = w.cache
                    /\ metrics' = w.metrics
                    /\ obs' = [op |-> "discover", wd |-> workingDir, ext |-> ext,
                               result |-> results, source |-> "fresh",
                               scanned |-> {scan.scanned[k] : k \in 1..Len(scan.scanned)},
                               evicted |-> w.evicted, sizeAtInsert |-> w.sizeAtInsert,
                               atInsert |-> v.cache, pre |-> pre]
  /\ UNCHANGED <<unreadable, requireDefined, readdirReversed, dirs, files, mtime, now, cfg, oracle, calls>>

RECURSIVE sumOver(_, _)
sumOver(f, S) ==
  IF S = {} THEN 0 ELSE LET x == CHOOSE y \in S : TRUE IN f[x] + sumOver(f, S \ {x})

\* The modifications of directories so far.
touches == sumOver(mtime, DirUniverse)

\* Some process touches directory d: its modification time changes.
Touch(d) ==
  /\ d \in dirs
  /\ now + touches < MaxEnv
  /\ mtime' = [mtime EXCEPT ![d] = @ + 1]
  /\ obs' = [op |-> "touch"]
  /\ UNCHANGED <<unreadable, requireDefined, readdirReversed, dirs, files, now, cfg, oracle, cache, metrics, ncalls, calls>>

\* Directory Lib and what it holds are removed.
RemoveLib ==
  /\ Lib \in dirs
  /\ now + touches < MaxEnv
  /\ dirs' = dirs \ {Lib}
  /\ files' = files \ {LibClaude}
  /\ mtime' = [mtime EXCEPT ![Src] = @ + 1]
  /\ obs' = [op |-> "removeLib"]
  /\ UNCHANGED <<unreadable, requireDefined, readdirReversed, now, cfg, oracle, cache, metrics, ncalls, calls>>

\* The clock advances.
Tick ==
  /\ now + touches < MaxEnv
  /\ now' = now + 1
  /\ obs' = [op |-> "tick"]
  /\ UNCHANGED <<unreadable, requireDefined, readdirReversed, dirs, files, mtime, cfg, oracle, cache, metrics, ncalls, calls>>

clearCache ==
  /\ cache # <<>>
  /\ cache' = <<>>
  /\ metrics' = ZeroMetrics
  /\ obs' = [op |-> "clearCache"]
  /\ UNCHANGED <<unreadable, requireDefined, readdirReversed, dirs, files, mtime, now, cfg, oracle, ncalls, calls>>

\* scanDirectory(rootDir, options) called on its own.
ScanDirectory(rootDir, maxDirs, maxDepth) ==
  /\ ncalls = 0
  /\ ncalls' = 1
  /\ LET r == scanDirectory(rootDir, [maxDepth |-> maxDepth, maxDirs |-> maxDirs,
                                      ignorePatterns |-> cfg.ignorePatterns,
                                      oracle |-> oracle])
     IN  obs' = [op |-> "scan", root |-> rootDir, maxDirs |-> maxDirs,
                 maxDepth |-> maxDepth, threw |-> r.threw, error |-> r.error,
                 directoriesScanned |-> r.directoriesScanned,
                 limitReached |-> r.limitReached,
                 scanned |-> {r.scanned[k] : k \in 1..Len(r.scanned)},
                 filesFound |-> Len(r.files),
                 found |-> {r.files[k].path : k \in 1..Len(r.files)},
                 files |-> r.files, order |-> r.scanned]
  /\ UNCHANGED <<unreadable, requireDefined, readdirReversed, dirs, files, mtime, now, cfg, oracle, cache, metrics, calls>>

----------------------------------------------------------------------------
(* Specifications *)

WorkingDirs == {Home, Yelm, Proj, Src, Lib}
ExtensionLists == {<<SrcExt>>, <<SrcAgents, LibClaude>>}
Hierarchies == {DEFAULT_CONTEXT_HIERARCHY, <<"GEMINI.md", "agents.md">>}

TreeOf(fs, git, lib) ==
  AlwaysDirs \cup DirsOf(fs) \cup (IF git THEN {Git} ELSE {}) \cup (IF lib THEN {Lib} ELSE {})

InitRest ==
  /\ mtime = [d \in DirUniverse |-> 0]
  /\ now = 0
  /\ cache = <<>>
  /\ metrics = ZeroMetrics
  /\ ncalls = 0
  /\ obs = NoObs
  /\ calls = <<>>

\* One discovery pass over every tree of the universe.
InitDiscover ==
  /\ \E fs \in SUBSET (FileUniverse \ {NodeAgents, SrcExt}) : files = fs \cup {SrcExt}
  /\ \E git \in BOOLEAN, lib \in BOOLEAN : dirs = TreeOf(files, git, lib)
  /\ \E h \in Hierarchies : cfg = [DEFAULT_CONTEXT_CONFIG EXCEPT !.hierarchy = h]
  /\ oracle = {}
  /\ unreadable = {}
  /\ requireDefined = TRUE
  /\ readdirReversed = FALSE
  /\ InitRest

\* The same call once more, answered from the cache where an entry was stored.
Rediscover == ncalls = 1 /\ Discover(obs.wd, obs.ext)

NextDiscover ==
  \/ \E w \in WorkingDirs, ext \in ExtensionLists : ncalls = 0 /\ Discover(w, ext)
  \/ Rediscover

SpecDiscover == InitDiscover /\ [][NextDiscover]_vars

----------------------------------------------------------------------------
(* Claims about one discovery pass (SpecDiscover) *)

Discovered == obs.op = "discover"
ResultIndices == 1..Len(obs.result)

\* Pattern p is present in directory d.
present(p, d) == isFile(resolveContextFilePath(p, d))
presentPatterns(d) == {i \in 1..Len(cfg.hierarchy) : present(cfg.hierarchy[i], d)}
\* The path of the highest-priority pattern present in d.
bestPathIn(d) ==
  resolveContextFilePath(
    cfg.hierarchy[CHOOSE i \in presentPatterns(d) : \A j \in presentPatterns(d) : i <= j], d)
hierarchyPathsOf(d) == {resolveContextFilePath(cfg.hierarchy[i], d) : i \in 1..Len(cfg.hierarchy)}

\* C1: the list returned by discover never contains two files that lie in the
\* same directory (global, project and extension entries counted together).
C1_OneFilePerDirectory ==
  Discovered =>
    \A i, j \in ResultIndices :
      i # j => dirname(obs.result[i].path) # dirname(obs.result[j].path)

\* C2: for every directory d the discovery scan visited, if some pattern of the
\* hierarchy is present in d (through resolveContextFilePath, so d/.cursor/rules
\* counts), then the files selected for d are exactly the one of the present
\* pattern with the smallest hierarchy index.
C2_LowestIndexWins ==
  Discovered =>
    \A d \in obs.scanned :
      presentPatterns(d) # {} =>
        {obs.result[i].path : i \in {k \in ResultIndices :
            /\ obs.result[k].type # "extension"
            /\ obs.result[k].level >= 0
            /\ obs.result[k].path \in hierarchyPathsOf(d)}} = {bestPathIn(d)}

\* The ancestors of the working directory from the directory itself up to and
\* including the project boundary, each with its number of parent steps.
RECURSIVE stepsToBoundary(_, _, _)
stepsToBoundary(d, k, boundary) ==
  IF d = boundary \/ d = dirname(d)
    THEN {[dir |-> d, level |-> k]}
    ELSE {[dir |-> d, level |-> k]} \cup stepsToBoundary(dirname(d), k + 1, boundary)

\* C3: for every ancestor a of the working directory up to and including the
\* project boundary that contains a hierarchy file, discover returns a's
\* highest-priority file with level equal to the number of parent steps from
\* the working directory to a; and in the scenario home/.yelm/agents.md,
\* proj/.git, proj/CLAUDE.md, proj/src/GEMINI.md with working directory
\* proj/src it returns exactly three files, with levels -1, 1 and 0.
C3_UpwardWalk ==
  (Discovered /\ obs.wd \in dirs /\ findProjectRoot(obs.wd) # {}) =>
    /\ \A a \in stepsToBoundary(obs.wd, 0, CHOOSE r \in findProjectRoot(obs.wd) : TRUE) :
         presentPatterns(a.dir) # {} =>
           \E i \in ResultIndices :
             obs.result[i].path = bestPathIn(a.dir) /\ obs.result[i].level = a.level
    /\ ( /\ obs.wd = Src
         /\ obs.ext = <<SrcAgents, LibClaude>>
         /\ cfg.hierarchy = DEFAULT_CONTEXT_HIERARCHY
         /\ files = {YelmAgents, ProjClaude, SrcGemini, SrcExt}
         /\ Git \in dirs )
        => {<<obs.result[i].path, obs.result[i].level>> : i \in ResultIndices}
             = {<<YelmAgents, -1>>, <<ProjClaude, 1>>, <<SrcGemini, 0>>}

GlobalDirPaths == {Append(homedir, cfg.globalDirs[i]) : i \in 1..Len(cfg.globalDirs)}
inGlobalDir(path) == \E g \in GlobalDirPaths : Len(path) > Len(g) /\ SubSeq(path, 1, Len(g)) = g

\* C4: the list returned by discover holds at most one entry from a global
\* directory, and that file's path never appears a second time under a
\* non-global level.
C4_GlobalOnce ==
  Discovered =>
    /\ Cardinality({i \in ResultIndices : inGlobalDir(obs.result[i].path)}) <= 1
    /\ \A i, j \in ResultIndices :
         (obs.result[i].level = -1 /\ obs.result[j].level # -1)
           => obs.result[i].path # obs.result[j].path

\* C13: the list returned by discover, freshly computed or served from the
\* cache, is sorted by level ascending and, within equal level, by priority
\* ascending.
C13_ResultSorted ==
  Discovered =>
    \A i, j \in ResultIndices :
      i < j => \/ obs.result[i].level < obs.result[j].level
               \/ /\ obs.result[i].level = obs.result[j].level
                  /\ obs.result[i].priority <= obs.result[j].priority

\* A list served from the cache that the sort had to reorder: it differs from
\* the global, project and extension lists laid end to end.
C13_Witness ==
  /\ Discovered
  /\ obs.source = "cache"
  /\ Len(obs.result) >= 3
  /\ obs.result # discoverGlobalFiles
                    \o discoverProjectFilesOptimized(obs.wd, oracle)
                    \o processExtensionFiles(obs.ext)

\* One scan of every tree of directories, from several roots and limits.
ScanRoots == {Home, Proj, Src, Lib, SrcAgents}
OptionalDirs == {Yelm, Gemini, Git, NodeModules, NodePkg, Cursor, Lib}
Oracles == {{}, {Src}, {Lib, SrcGemini}}
Unreadables == {{}, {Src}}

InitScan ==
  /\ \E ds \in SUBSET OptionalDirs :
       /\ NodePkg \in ds => NodeModules \in ds
       /\ dirs = AlwaysDirs \cup ds
  /\ files = {f \in FileUniverse : dirname(f) \in dirs}
  /\ cfg = DEFAULT_CONTEXT_CONFIG
  /\ oracle \in Oracles
  /\ unreadable \in Unreadables
  /\ requireDefined = TRUE
  /\ readdirReversed = FALSE
  /\ InitRest

NextScan ==
  \E r \in ScanRoots, n \in 1..MaxDirs, depth \in 1..MaxDepth : ScanDirectory(r, n, depth)

SpecScan == InitScan /\ [][NextScan]_vars

----------------------------------------------------------------------------
(* Claims about one scan (SpecScan) *)

isPrefix(a, d) == Len(a) <= Len(d) /\ SubSeq(d, 1, Len(a)) = a

\* A directory is accepted on its own account: within the depth limit, not
\* ignored by name, not excluded by the oracle.
accepted(d, root, maxDepth) ==
  /\ Len(d) - Len(root) <= maxDepth
  /\ ~shouldIgnoreDirectory(d, cfg.ignorePatterns)
  /\ d \notin oracle

\* The eligible directories of the tree under root: those accepted together
\* with every directory between them and the root (what lies inside an ignored
\* or excluded directory is ignored or excluded with it), and not lying inside
\* a directory that cannot be read.
eligibleDirs(root, maxDepth) ==
  {d \in dirs : /\ isPrefix(root, d)
                /\ \A a \in Ancestors(d) :
                     isPrefix(root, a) => /\ accepted(a, root, maxDepth)
                                          /\ a # d => a \notin unreadable}

C18_FailsOnlyOnRoot ==
  obs.op = "scan" =>
    /\ obs.threw <=> obs.root \notin dirs
    /\ obs.threw => obs.error = [class |-> "ContextFileError", code |-> "NOT_A_DIRECTORY"]
    /\ \A d \in unreadable :
         (~obs.threw /\ d # obs.root) => \A f \in obs.found : dirname(f) # d

\* The directories from the scan's root down to directory d.
pathFromRoot(root, d) == {a \in Ancestors(d) : isPrefix(root, a)}

leftUnscanned == eligibleDirs(obs.root, obs.maxDepth) \ obs.scanned

\* The result of the scan with no limit on the number of directories.
fullScan ==
  scanDirectory(obs.root, [maxDepth |-> obs.maxDepth, maxDirs |-> Cardinality(DirUniverse) + 1,
                           ignorePatterns |-> cfg.ignorePatterns, oracle |-> oracle])

\* C30: scanDirectory visits directories in breadth-first order: the files
\* list is in non-decreasing depth, and when maxDirs cuts the scan short every
\* scanned directory has depth less than or equal to every eligible directory
\* left unscanned, so the partial result is a complete prefix of the full
\* breadth-first result.
C30_BreadthFirstPrefix ==
  (obs.op = "scan" /\ ~obs.threw) =>
    /\ \A i, j \in 1..Len(obs.files) : i <= j => obs.files[i].depth <= obs.files[j].depth
    /\ \A i, j \in 1..Len(obs.order) : i <= j => Len(obs.order[i]) <= Len(obs.order[j])
    /\ \A s \in obs.scanned : \A u \in leftUnscanned : Len(s) <= Len(u)
    /\ Len(obs.files) <= Len(fullScan.files)
    /\ obs.files = SubSeq(fullScan.files, 1, Len(obs.files))
    /\ obs.order = SubSeq(fullScan.scanned, 1, Len(obs.order))

\* A scan cut short by maxDirs after directories of two depths, its files a
\* proper prefix of the full result.
C30_Witness ==
  /\ obs.op = "scan" /\ ~obs.threw
  /\ leftUnscanned # {}
  /\ \E i, j \in 1..Len(obs.files) : obs.files[i].depth < obs.files[j].depth
  /\ Len(obs.files) < Len(fullScan.files)

\* C37: scanDirectory returns limitReached = false whenever every eligible
\* directory of the tree was scanned, in particular for a tree with exactly
\* maxDirs eligible directories.
C37_NoLimitWhenAllScanned ==
  (obs.op = "scan" /\ ~obs.threw /\ leftUnscanned = {}) => ~obs.limitReached

----------------------------------------------------------------------------
(* Discovery from working directories of any name, one of them named like an
   ignore pattern (node_modules) *)

NamedFiles == {YelmAgents, HomeAgents, ProjClaude, SrcAgents, SrcGemini, LibClaude}
NamedWorkingDirs == {NodeModules, Proj, Src, Lib}

InitNamed ==
  /\ \E fs \in SUBSET NamedFiles : files = fs \cup {NodeAgents}
  /\ \E git \in BOOLEAN : dirs = TreeOf(files, git, TRUE)
  /\ \E enabled \in BOOLEAN : cfg = [DEFAULT_CONTEXT_CONFIG EXCEPT !.cacheEnabled = enabled]
  /\ oracle = {}
  /\ unreadable = {}
  /\ requireDefined = TRUE
  /\ readdirReversed = FALSE
  /\ InitRest

NextNamed == \E w \in NamedWorkingDirs : Discover(w, <<>>)

SpecNamed == InitNamed /\ [][NextNamed]_vars

\* C38: if the working directory is a readable directory that holds a
\* hierarchy file, discover returns a level-0 entry for a hierarchy file of
\* that directory, whatever the directory's own name is (a name equal to a
\* configured ignore pattern included).
C38_WorkingDirLevelZero ==
  (Discovered /\ isDirectory(obs.wd) /\ obs.wd \notin unreadable
     /\ presentPatterns(obs.wd) # {}) =>
    \E i \in ResultIndices :
      /\ obs.result[i].level = 0
      /\ obs.result[i].path \in hierarchyPathsOf(obs.wd)

----------------------------------------------------------------------------
(* The cache under sequential use: every discover call is awaited before the
   next operation, and the file system changes only between calls. *)

CacheWorkingDirs == {Proj, Src, Lib}
TouchDirs == {Proj, Src, Lib}
CacheTrees == {{YelmAgents, ProjClaude, SrcGemini, LibClaude}}

\* The configurations of a ContextFileDiscovery: the default one, and the one
\* a ContextFileManager passes (ContextConfig.getConfig()).
CacheConfigs ==
  {DEFAULT_CONTEXT_CONFIG,
   buildConfig([hierarchy |-> DEFAULT_CONTEXT_HIERARCHY, cacheEnabled |-> TRUE]),
   buildConfig([hierarchy |-> DEFAULT_CONTEXT_HIERARCHY, cacheEnabled |-> FALSE])}

Init ==
  /\ files \in CacheTrees
  /\ dirs = TreeOf(files, TRUE, TRUE)
  /\ cfg \in CacheConfigs
  /\ oracle = {}
  /\ unreadable = {}
  /\ requireDefined = TRUE
  /\ readdirReversed = FALSE
  /\ InitRest

Next ==
  \/ \E w \in CacheWorkingDirs : Discover(w, <<>>)
  \/ \E d \in TouchDirs : Touch(d)
  \/ RemoveLib
  \/ Tick
  \/ clearCache

Spec == Init /\ [][Next]_vars

----------------------------------------------------------------------------
(* Claims about the cache under sequential use (Spec) *)

CachedCall == Discovered /\ cfg.cacheEnabled

\* C5: with caching enabled, if an entry for workingDir is stored, no recorded
\* directory's modification time changed and the entry's age is within the
\* limit, discover(workingDir) returns a list equal to the stored one,
\* increments hits by exactly one and leaves misses unchanged.
C5_HitOnUnchangedTree ==
  (CachedCall /\ obs.pre.hadEntry /\ obs.pre.dirsSame /\ obs.pre.ageOk) =>
    /\ obs.source = "cache"
    /\ obs.result = obs.pre.preResults
    /\ metrics.hits = obs.pre.preMetrics.hits + 1
    /\ metrics.misses = obs.pre.preMetrics.misses

\* A hit on an entry stored at an earlier clock tick, after an unrelated
\* directory was touched.
C5_Witness ==
  /\ CachedCall /\ obs.pre.hadEntry /\ obs.pre.dirsSame /\ obs.pre.ageOk
  /\ obs.source = "cache"
  /\ obs.result # <<>>
  /\ now > 0
  /\ \E i \in 1..Len(cache) : cache[i].key = obs.wd /\ cache[i].timestamp < now
  /\ \E d \in TouchDirs : mtime[d] > 0

\* C6: if a directory recorded in the entry for workingDir reports another
\* modification time or can no longer be stat'ed, discover(workingDir) removes
\* that entry, does not serve the cached list, and returns what a fresh
\* discovery of the tree gives.
C6_StaleEntryDropped ==
  (CachedCall /\ obs.pre.hadEntry /\ ~obs.pre.dirsSame) =>
    /\ obs.source = "fresh"
    /\ obs.pre.preId \notin idsOf(cache)
    /\ obs.result = freshDiscover(obs.wd, obs.ext, oracle)

\* The recorded working directory vanished and the cached list is no longer
\* what the tree holds.
C6_Witness ==
  /\ CachedCall /\ obs.pre.hadEntry /\ ~obs.pre.dirsSame
  /\ obs.wd = Lib /\ Lib \notin dirs
  /\ obs.source = "fresh"
  /\ obs.result # obs.pre.preResults

\* C7: a cache-enabled discover call that finds its entry invalidated by a
\* changed directory modification time increments misses by exactly one; and
\* every cache-enabled call adds exactly one to hits + misses (so that hits +
\* misses counts the calls).
C7_EveryCallCounted ==
  CachedCall =>
    /\ (obs.pre.hadEntry /\ obs.pre.ageOk /\ ~obs.pre.dirsSame)
         => metrics.misses = obs.pre.preMetrics.misses + 1
    /\ metrics.hits + metrics.misses
         = obs.pre.preMetrics.hits + obs.pre.preMetrics.misses + 1

\* C10: a cache entry is evicted only when the insert finds the cache holding
\* maxCacheSize entries, whichever configuration the instance was built with.
C10_EvictOnlyWhenFull ==
  (CachedCall /\ obs.evicted # {}) =>
    \E n \in cfg.maxCacheSize : obs.sizeAtInsert = n

\* C11: after any sequence of discover calls with caching enabled, several
\* inserts within one clock tick included, the number of cache entries never
\* exceeds maxCacheSize.
C11_CacheSizeBounded ==
  cfg.cacheEnabled => \A n \in cfg.maxCacheSize : Len(cache) <= n

\* The maximum age an instance is meant to apply: the configured one, and the
\* default of DEFAULT_CONTEXT_CONFIG where the configuration carries none.
maximumAge == IF cfg.maxCacheAge = Undefined
                THEN DEFAULT_CONTEXT_CONFIG.maxCacheAge
                ELSE cfg.maxCacheAge

\* C12: an entry is served only if its age is below the configured maximum
\* age and every recorded directory still has the identical modification time;
\* an entry whose age has reached the maximum is removed and counted as a miss,
\* whichever configuration the instance was built with.
C12_ServedOnlyWhenYoung ==
  /\ (CachedCall /\ obs.source = "cache") =>
        /\ \A n \in maximumAge : obs.pre.preAge < n
        /\ obs.pre.dirsSame
  /\ (CachedCall /\ obs.pre.hadEntry /\ \E n \in maximumAge : obs.pre.preAge >= n) =>
        /\ obs.source = "fresh"
        /\ obs.pre.preId \notin idsOf(cache)
        /\ metrics.misses = obs.pre.preMetrics.misses + 1

\* C28: whenever an insert evicts an entry, the evicted entry is the one with
\* the smallest lastAccessed among all entries present, where lastAccessed is
\* set on insertion and on every validity check of that entry.
C28_EvictsLeastRecentlyUsed ==
  CachedCall =>
    /\ \A k \in obs.evicted :
         \E i \in 1..Len(obs.atInsert) :
           /\ obs.atInsert[i].key = k
           /\ \A j \in 1..Len(obs.atInsert) :
                obs.atInsert[i].lastAccessed <= obs.atInsert[j].lastAccessed
    /\ cacheIndex(cache, obs.wd) # 0 =>
         cache[cacheIndex(cache, obs.wd)].lastAccessed = now

\* An insert into a full cache whose two entries were last accessed at
\* different times evicts one of them.
C28_Witness ==
  /\ CachedCall /\ obs.evicted # {}
  /\ Len(obs.atInsert) >= 2
  /\ \E i, j \in 1..Len(obs.atInsert) :
       obs.atInsert[i].lastAccessed < obs.atInsert[j].lastAccessed

----------------------------------------------------------------------------
(* A caller that changes the list discover returned. On a hit discover returns
   this.cache.get(cacheKey).results, the array the entry holds; on a miss it
   returns the array it built, of which the entry holds a copy. *)

\* What a caller makes of a list: pop, reverse, or push of an entry of its own.
ListChanges == {"pop", "reverse", "push"}
CallerEntry == [path |-> SrcExt, type |-> "extension",
                priority |-> ExtensionPriority, level |-> ExtensionLevel]
changed(list, how) ==
  IF how = "pop" THEN SubSeq(list, 1, Len(list) - 1)
  ELSE IF how = "reverse" THEN reverse(list)
  ELSE Append(list, CallerEntry)

\* The caller of the last discover changes the list it was handed.
MutateReturned(how) ==
  /\ Discovered
  /\ changed(obs.result, how) # obs.result
  /\ LET i == cacheIndex(cache, obs.wd) IN
       cache' = IF obs.source = "cache" /\ i # 0
                  THEN [cache EXCEPT ![i].results = changed(obs.result, how)]
                  ELSE cache
  /\ obs' = [op |-> "mutate", wd |-> obs.wd, source |-> obs.source]
  /\ UNCHANGED <<unreadable, requireDefined, readdirReversed, dirs, files, mtime, now, cfg, oracle, metrics, ncalls, calls>>

InitAlias ==
  /\ files \in CacheTrees
  /\ dirs = TreeOf(files, TRUE, TRUE)
  /\ cfg \in {DEFAULT_CONTEXT_CONFIG,
              buildConfig([hierarchy |-> DEFAULT_CONTEXT_HIERARCHY, cacheEnabled |-> TRUE])}
  /\ oracle = {}
  /\ unreadable = {}
  /\ requireDefined = TRUE
  /\ readdirReversed = FALSE
  /\ InitRest

NextAlias ==
  \/ \E w \in CacheWorkingDirs : Discover(w, <<>>)
  \/ \E how \in ListChanges : MutateReturned(how)
  \/ Tick

SpecAlias == InitAlias /\ [][NextAlias]_vars

\* C31: no list returned to a caller by discover, findContextFiles or
\* loadContextFiles is the same mutable object as a list held in a cache
\* entry: after a caller adds, removes or reorders elements of a returned
\* list, a later cache hit for the same working directory still returns the
\* originally cached list.
C31_CachedListNotShared ==
  (CachedCall /\ obs.source = "cache") =>
    obs.result = cache[cacheIndex(cache, obs.wd)].stored

----------------------------------------------------------------------------
(* The cache over a file system in which files come and go: every creation
   and every deletion of a file changes the modification time of the directory
   that directly holds it. *)

CreateFile(f) ==
  /\ f \notin files
  /\ dirname(f) \in dirs
  /\ now + touches < MaxEnv
  /\ files' = files \cup {f}
  /\ mtime' = [mtime EXCEPT ![dirname(f)] = @ + 1]
  /\ obs' = [op |-> "create"]
  /\ UNCHANGED <<unreadable, requireDefined, readdirReversed, dirs, now, cfg, oracle, cache, metrics, ncalls, calls>>

DeleteFile(f) ==
  /\ f \in files
  /\ now + touches < MaxEnv
  /\ files' = files \ {f}
  /\ mtime' = [mtime EXCEPT ![dirname(f)] = @ + 1]
  /\ obs' = [op |-> "delete"]
  /\ UNCHANGED <<unreadable, requireDefined, readdirReversed, dirs, now, cfg, oracle, cache, metrics, ncalls, calls>>

ChangingFiles == {YelmAgents, ProjClaude, SrcAgents, SrcGemini, LibClaude}
ChangingWorkingDirs == {Proj, Src}

InitChanging ==
  /\ files \in SUBSET {ProjClaude, SrcGemini}
  /\ dirs = AlwaysDirs \cup {Git, Lib, Yelm}
  /\ cfg \in {DEFAULT_CONTEXT_CONFIG,
              buildConfig([hierarchy |-> DEFAULT_CONTEXT_HIERARCHY, cacheEnabled |-> TRUE])}
  /\ oracle = {}
  /\ unreadable = {}
  /\ requireDefined = TRUE
  /\ readdirReversed = FALSE
  /\ InitRest

NextChanging ==
  \/ \E w \in ChangingWorkingDirs : Discover(w, <<>>)
  \/ \E f \in ChangingFiles : CreateFile(f)
  \/ \E f \in ChangingFiles : DeleteFile(f)

SpecChanging == InitChanging /\ [][NextChanging]_vars

\* C32: with caching enabled and a file system in which every creation or
\* deletion of an entry changes the modification time of the directory that
\* directly contains it, discover never returns a list different from what an
\* uncached discovery of the current file system would return (for example
\* after a context file is added to a descendant directory, or to a global
\* directory, that had none when the entry was cached).
C32_CacheNeverStale ==
  CachedCall => obs.result = freshDiscover(obs.wd, obs.ext, oracle)

----------------------------------------------------------------------------
(* Calls for one working directory with different extension lists. *)

ExtensionChoices == {<<>>, <<SrcExt>>, <<SrcAgents, LibClaude>>}

InitExtensions ==
  /\ \E fs \in SUBSET {SrcExt, SrcGemini} : files = {YelmAgents, ProjClaude, LibClaude} \cup fs
  /\ dirs = TreeOf(files, TRUE, TRUE)
  /\ cfg \in CacheConfigs
  /\ oracle = {}
  /\ unreadable = {}
  /\ requireDefined = TRUE
  /\ readdirReversed = FALSE
  /\ InitRest

NextExtensions ==
  \/ \E w \in ChangingWorkingDirs, ext \in ExtensionChoices : Discover(w, ext)
  \/ Tick

SpecExtensions == InitExtensions /\ [][NextExtensions]_vars

\* C33: the extension entries in the list returned by discover are exactly the
\* existing regular files among the extensionContextFiles passed to that same
\* call, also when the call is served from the cache after an earlier call for
\* the same working directory passed a different extension list.
C33_ExtensionsOfThisCall ==
  Discovered =>
    {obs.result[k].path : k \in {i \in ResultIndices : obs.result[i].type = "extension"}}
      = {obs.ext[k] : k \in {i \in 1..Len(obs.ext) : isFile(obs.ext[i])}}

----------------------------------------------------------------------------
(* Discovery without the cache on a tree the file system enumerates in one
   order or the other. *)

\* The file system changes the order in which it lists entries; nothing else
\* changes, and the caller still holds the list of its last call.
Reorder ==
  /\ Discovered
  /\ readdirReversed' = ~readdirReversed
  /\ UNCHANGED <<unreadable, requireDefined, dirs, files, mtime, now, cfg, oracle, cache, metrics, ncalls, obs, calls>>

OrderFiles == {YelmAgents, GeminiAgents, ProjClaude, SrcAgents, LibClaude}
OrderWorkingDirs == {Home, Proj, Src}

InitOrder ==
  /\ files \in SUBSET OrderFiles
  /\ dirs = TreeOf(files, TRUE, TRUE)
  /\ cfg = [DEFAULT_CONTEXT_CONFIG EXCEPT !.cacheEnabled = FALSE]
  /\ oracle = {}
  /\ unreadable = {}
  /\ requireDefined = TRUE
  /\ readdirReversed \in BOOLEAN
  /\ InitRest

NextOrder ==
  \/ \E w \in OrderWorkingDirs : Discover(w, <<>>)
  \/ Reorder

SpecOrder == InitOrder /\ [][NextOrder]_vars

\* C34: with caching disabled, two discover calls on the same unmodified tree
\* return the same ordered list whatever order the file system enumerates
\* directory entries in (for example two sibling subdirectories that each hold
\* agents.md).
C34_OrderIndependent ==
  [][(/\ Discovered /\ Discovered'
      /\ ~cfg.cacheEnabled
      /\ obs'.wd = obs.wd /\ obs'.ext = obs.ext
      /\ files' = files /\ dirs' = dirs)
       => obs'.result = obs.result]_vars

----------------------------------------------------------------------------
(* The sort of discover over the lists its three steps can hand it, for the
   depth limits the constructor accepts. The scanner gives a file the depth of
   its directory below the working directory, any value from 0 to maxDepth
   (scanDirectory skips a directory only when depth > maxDepth). *)

DeepDir == <<"home", "proj", "deep">>
DeepAgents == Append(DeepDir, "agents.md")
DeepClaude == Append(DeepDir, "CLAUDE.md")

DepthLimits == {1, MaxDepth, ExtensionLevel, ExtensionLevel + 1}

\* What toResults yields for a file found level directories down.
projectEntry(name, level) ==
  [path |-> Append(DeepDir, name), type |-> name,
   priority |-> indexOf(cfg.hierarchy, name), level |-> level]

ProjectEntries ==
  {projectEntry(name, level) : name \in {"agents.md", "CLAUDE.md"},
                               level \in {0, cfg.maxDepth}}
ProjectLists ==
  {<<e>> : e \in ProjectEntries}
    \cup {<<pair[1], pair[2]>> :
            pair \in {q \in ProjectEntries \X ProjectEntries : q[1].level <= q[2].level}}

\* Lines 169-188 of discover with the project list given.
SortLists(projectFiles, ext) ==
  /\ ncalls = 0
  /\ ncalls' = 1
  /\ obs' = [op |-> "sort", ext |-> ext,
             result |-> sortResults(discoverGlobalFiles \o projectFiles
                                    \o processExtensionFiles(ext))]
  /\ UNCHANGED <<unreadable, requireDefined, readdirReversed, dirs, files, mtime, now, cfg, oracle, cache, metrics, calls>>

InitSort ==
  /\ files \in {{YelmAgents, SrcExt}, {SrcExt, LibClaude}}
  /\ dirs = TreeOf(files, TRUE, TRUE)
  /\ \E d \in DepthLimits : cfg = [DEFAULT_CONTEXT_CONFIG EXCEPT !.maxDepth = d]
  /\ validateConfig(cfg)
  /\ oracle = {}
  /\ unreadable = {}
  /\ requireDefined = TRUE
  /\ readdirReversed = FALSE
  /\ InitRest

NextSort == \E p \in ProjectLists, ext \in ExtensionLists : SortLists(p, ext)

SpecSort == InitSort /\ [][NextSort]_vars

\* C14: every extension file returned by discover sorts after every global and
\* project entry, for every maxDepth >= 1 the constructor accepts; and an
\* extension path that does not exist or is not a regular file is absent from
\* the result.
C14_ExtensionsLast ==
  obs.op = "sort" =>
    /\ \A i, j \in 1..Len(obs.result) :
         (obs.result[i].type = "extension" /\ obs.result[j].type # "extension") => j < i
    /\ \A i \in 1..Len(obs.result) :
         obs.result[i].type = "extension" => obs.result[i].path \in files
    /\ \A k \in 1..Len(obs.ext) :
         obs.ext[k] \notin files =>
           \A i \in 1..Len(obs.result) : obs.result[i].path # obs.ext[k]

----------------------------------------------------------------------------
(* ContextFileManager.loadContextFiles. A file's content is a sequence of
   characters; what fs.readFile gives for each discovered path (a content or a
   failure) is drawn when the load runs. *)

Whitespace == {" ", "\n"}
ReadFails == <<"EACCES">>
Contents == {<<>>, <<" ", "\n">>, <<" ", "a", " ">>}
ReadResults == Contents \cup {ReadFails}

\* String.prototype.trim
RECURSIVE trimStart(_)
trimStart(content) ==
  IF content # <<>> /\ Head(content) \in Whitespace
    THEN trimStart(Tail(content))
    ELSE content

RECURSIVE trimEnd(_)
trimEnd(content) ==
  IF content # <<>> /\ content[Len(content)] \in Whitespace
    THEN trimEnd(SubSeq(content, 1, Len(content) - 1))
    ELSE content

trim(content) == trimEnd(trimStart(content))

processFileContent(content) == trim(content)

\* discover as loadContextFiles awaits it: the returned list with the cache and
\* the metrics it leaves.
discoverCall(workingDir, ext, orc) ==
  LET v == IF cfg.cacheEnabled
             THEN isCacheValid(cache, metrics, workingDir)
             ELSE [valid |-> FALSE, cache |-> cache, metrics |-> metrics]
  IN  IF v.valid
        THEN [results |-> v.cache[cacheIndex(v.cache, workingDir)].results,
              cache |-> v.cache, metrics |-> v.metrics]
        ELSE LET results == freshDiscover(workingDir, ext, orc)
                 w == IF cfg.cacheEnabled
                        THEN cacheResults(v.cache, v.metrics, workingDir, workingDir,
                                          results, ncalls + 1)
                        ELSE [cache |-> v.cache, metrics |-> v.metrics]
             IN  [results |-> results, cache |-> w.cache, metrics |-> w.metrics]

\* readAndProcessFiles giving up at the first read that fails.
RECURSIVE readUntilFailure(_, _, _)
readUntilFailure(fileList, orc, reads) ==
  IF fileList = <<>> \/ reads[Head(fileList).path] = ReadFails
    THEN <<>>
    ELSE LET file == Head(fileList) IN
         (IF file.path \in orc
            THEN <<>>
            ELSE <<[path |-> file.path, type |-> file.type, priority |-> file.priority,
                    level |-> file.level,
                    content |-> processFileContent(reads[file.path])]>>)
           \o readUntilFailure(Tail(fileList), orc, reads)

\* readAndProcessFiles: a file the oracle excludes or whose read fails is
\* passed over; the others are copied with their trimmed content.
RECURSIVE readAndProcessFiles(_, _, _)
readAndProcessFiles(fileList, orc, reads) ==
  IF fileList = <<>>
    THEN <<>>
    ELSE LET file == Head(fileList) IN
         (IF file.path \in orc \/ reads[file.path] = ReadFails
            THEN <<>>
            ELSE <<[path |-> file.path, type |-> file.type, priority |-> file.priority,
                    level |-> file.level,
                    content |-> processFileContent(reads[file.path])]>>)
           \o readAndProcessFiles(Tail(fileList), orc, reads)

\* path.relative(from, to) for two absolute normalised paths.
RECURSIVE commonPrefix(_, _)
commonPrefix(a, b) ==
  IF a # <<>> /\ b # <<>> /\ Head(a) = Head(b)
    THEN 1 + commonPrefix(Tail(a), Tail(b))
    ELSE 0

relative(from, to) ==
  LET k == commonPrefix(from, to) IN
    [i \in 1..(Len(from) - k) |-> ".."] \o SubSeq(to, k + 1, Len(to))

\* The combined content is a sequence of tokens: the header line, the text and
\* the footer line of a block, and the blank line that join puts between blocks.
headerOf(displayPath) == [tag |-> "--- Context from: ", path |-> displayPath, text |-> <<>>]
textOf(content) == [tag |-> "text", path |-> <<>>, text |-> content]
footerOf(displayPath) == [tag |-> "--- End of Context from: ", path |-> displayPath, text |-> <<>>]
blankLine == [tag |-> "\n\n", path |-> <<>>, text |-> <<>>]

RECURSIVE joinBlocks(_)
joinBlocks(blocks) ==
  IF blocks = <<>>
    THEN <<>>
    ELSE IF Len(blocks) = 1
      THEN Head(blocks)
      ELSE Head(blocks) \o <<blankLine>> \o joinBlocks(Tail(blocks))

combineFileContents(processedFiles, workingDir) ==
  LET kept == SelectSeq(processedFiles, LAMBDA file : Len(trim(file.content)) > 0)
      blocks == [i \in 1..Len(kept) |->
                   LET displayPath == relative(workingDir, kept[i].path) IN
                     <<headerOf(displayPath), textOf(kept[i].content), footerOf(displayPath)>>]
  IN  joinBlocks(blocks)

pathsOf(fileList) == {fileList[i].path : i \in 1..Len(fileList)}

\* [...new Set(names)]: the base names in order of first appearance.
extractFileNames(processedFiles) ==
  dedupe([i \in 1..Len(processedFiles) |-> basename(processedFiles[i].path)], {})

\* loadContextFiles(options), awaited to its end. The discovery is not handed
\* the oracle; readAndProcessFiles is. reads is what fs.readFile answers for
\* each discovered path.
LoadContextFiles(workingDir, ext) ==
  /\ ncalls = 0
  /\ ncalls' = 1
  /\ LET d == discoverCall(workingDir, ext, {}) IN
       /\ cache' = d.cache
       /\ metrics' = d.metrics
       /\ \E reads \in [pathsOf(d.results) -> ReadResults] :
            LET processedFiles == readAndProcessFiles(d.results, oracle, reads) IN
              obs' = [op |-> "load", wd |-> workingDir, ext |-> ext, reads |-> reads,
                      discovered |-> d.results, threw |-> FALSE,
                      load |-> IF Len(d.results) = 0
                                 THEN [content |-> <<>>, fileCount |-> 0,
                                       files |-> <<>>, fileNames |-> <<>>]
                                 ELSE [content |-> combineFileContents(processedFiles, workingDir),
                                       fileCount |-> Len(processedFiles),
                                       files |-> processedFiles,
                                       fileNames |-> extractFileNames(processedFiles)]]
  /\ UNCHANGED <<unreadable, requireDefined, readdirReversed, dirs, files, mtime, now, cfg, oracle, calls>>

\* One load by a manager built without settings (caching enabled) or for the
\* test environment (caching disabled), over every tree of ManagerFiles.
ManagerFiles == {YelmAgents, ProjClaude, SrcGemini, LibClaude}
ManagerWorkingDirs == {Yelm, Proj, Src}
ManagerExtensionLists == {<<>>, <<SrcExt>>}
ManagerOracles == {{}, {SrcGemini}}
InitManager ==
  /\ \E fs \in SUBSET ManagerFiles : files = fs \cup {SrcExt}
  /\ dirs = TreeOf(files, TRUE, TRUE)
  /\ \E enabled \in BOOLEAN :
       cfg = buildConfig([hierarchy |-> DEFAULT_CONTEXT_HIERARCHY, cacheEnabled |-> enabled])
  /\ validateConfig(cfg)
  /\ oracle \in ManagerOracles
  /\ unreadable = {}
  /\ requireDefined = TRUE
  /\ readdirReversed = FALSE
  /\ InitRest

NextManager ==
  \E w \in ManagerWorkingDirs, ext \in ManagerExtensionLists : LoadContextFiles(w, ext)

SpecManager == InitManager /\ [][NextManager]_vars

Loaded == obs.op = "load"

\* The discovered files that were readable and that the oracle does not
\* exclude, in discovery order.
readable(fileList) ==
  SelectSeq(fileList, LAMBDA f : obs.reads[f.path] # ReadFails /\ f.path \notin oracle)

\* C15: if reading any subset of the discovered files fails, loadContextFiles
\* still returns normally, and its files list is exactly the discovered files
\* that were readable and not excluded by the oracle, in discovery order, with
\* fileCount equal to its length.
C15_UnreadableFilesDropped ==
  (Loaded /\ obs.discovered # <<>>) =>
    /\ ~obs.threw
    /\ Len(obs.load.files) = Len(readable(obs.discovered))
    /\ \A i \in 1..Len(obs.load.files) :
         /\ obs.load.files[i].path = readable(obs.discovered)[i].path
         /\ obs.load.files[i].level = readable(obs.discovered)[i].level
         /\ obs.load.files[i].priority = readable(obs.discovered)[i].priority
    /\ obs.load.fileCount = Len(obs.load.files)

\* A load in which one read failed, one file was excluded by the oracle and
\* two files were loaded.
C15_Witness ==
  /\ Loaded
  /\ \E f \in pathsOf(obs.discovered) : obs.reads[f] = ReadFails /\ f \notin oracle
  /\ \E f \in pathsOf(obs.discovered) : obs.reads[f] # ReadFails /\ f \in oracle
  /\ obs.load.fileCount = 2
  /\ Len(obs.discovered) = 4

\* The header lines and the footer lines of the combined content, in order.
headersOf(content) == SelectSeq(content, LAMBDA t : t.tag = "--- Context from: ")
footersOf(content) == SelectSeq(content, LAMBDA t : t.tag = "--- End of Context from: ")

\* C16: the content returned by loadContextFiles consists of exactly one block
\* "--- Context from: <path> ---" ... "--- End of Context from: <path> ---"
\* for each entry of the returned files list, in the same order, so the number
\* of blocks equals fileCount, also when a loaded file is empty or
\* whitespace-only.
C16_OneBlockPerFile ==
  Loaded =>
    /\ Len(headersOf(obs.load.content)) = obs.load.fileCount
    /\ Len(footersOf(obs.load.content)) = obs.load.fileCount
    /\ \A i \in 1..Len(headersOf(obs.load.content)) :
         /\ i <= Len(obs.load.files)
         /\ headersOf(obs.load.content)[i].path = relative(obs.wd, obs.load.files[i].path)
         /\ footersOf(obs.load.content)[i].path = relative(obs.wd, obs.load.files[i].path)

\* The directories the claim speaks of: the global directories, the working
\* directory, its ancestors and its subtree.
searchedDirs(workingDir) ==
  GlobalDirPaths \cup {d \in dirs : isPrefix(d, workingDir) \/ isPrefix(workingDir, d)}

noContextFile(workingDir) == \A d \in searchedDirs(workingDir) : presentPatterns(d) = {}

----------------------------------------------------------------------------
(* Loads with a gitignore oracle that excludes one of two files of a
   directory. *)

OracleFiles == {ProjClaude, SrcAgents, SrcGemini, LibClaude}
OracleChoices == {{}, {SrcAgents}, {SrcGemini}, {ProjClaude, SrcAgents}}
OracleWorkingDirs == {Proj, Src}

InitOracle ==
  /\ files \in SUBSET OracleFiles
  /\ dirs = TreeOf(files, TRUE, TRUE)
  /\ \E enabled \in BOOLEAN :
       cfg = buildConfig([hierarchy |-> DEFAULT_CONTEXT_HIERARCHY, cacheEnabled |-> enabled])
  /\ validateConfig(cfg)
  /\ oracle \in OracleChoices
  /\ unreadable = {}
  /\ requireDefined = TRUE
  /\ readdirReversed = FALSE
  /\ InitRest

NextOracle == \E w \in OracleWorkingDirs : LoadContextFiles(w, <<>>)

SpecOracle == InitOracle /\ [][NextOracle]_vars

\* The patterns present in directory d whose file the oracle does not exclude.
notExcluded(d) ==
  {i \in presentPatterns(d) : resolveContextFilePath(cfg.hierarchy[i], d) \notin oracle}

\* C27: for every directory and every gitignore oracle passed to
\* loadContextFiles, the file loaded for that directory is the highest-priority
\* pattern among the files the oracle does not exclude: when the directory's
\* highest-priority file is excluded and a lower-priority file is not, the
\* lower-priority file is loaded.
C27_BestNotExcludedLoaded ==
  (Loaded /\ ~obs.threw /\ \A p \in DOMAIN obs.reads : obs.reads[p] # ReadFails) =>
    \A d \in dirs :
      (isPrefix(obs.wd, d) /\ notExcluded(d) # {}) =>
        \E k \in 1..Len(obs.load.files) :
          obs.load.files[k].path =
            resolveContextFilePath(
              cfg.hierarchy[CHOOSE i \in notExcluded(d) : \A j \in notExcluded(d) : i <= j], d)

----------------------------------------------------------------------------
(* Construction of ContextConfig, ContextFileManager and ContextFileDiscovery
   from valid and invalid settings. *)

constructed(class, config, ok) ==
  [op |-> "construct", class |-> class, config |-> config, rejected |-> ~ok,
   error |-> IF ok THEN "none" ELSE "ConfigurationError"]

\* new ContextConfig(userSettings)
NewContextConfig(userSettings) ==
  /\ ncalls = 0
  /\ ncalls' = 1
  /\ LET config == buildConfig(userSettings)
         valid == validateContextConfig(config)
     IN  /\ obs' = constructed("ContextConfig", config, valid)
         /\ cfg' = IF valid THEN config ELSE cfg
  /\ UNCHANGED <<unreadable, requireDefined, readdirReversed, dirs, files, mtime, now, oracle, cache, metrics, calls>>

\* new ContextFileManager(userSettings): a ContextConfig, then a
\* ContextFileDiscovery built from its getConfig().
NewContextFileManager(userSettings) ==
  /\ ncalls = 0
  /\ ncalls' = 1
  /\ LET config == buildConfig(userSettings)
         valid == validateContextConfig(config) /\ validateConfig(config)
     IN  /\ obs' = constructed("ContextFileManager", config, valid)
         /\ cfg' = IF valid THEN config ELSE cfg
  /\ UNCHANGED <<unreadable, requireDefined, readdirReversed, dirs, files, mtime, now, oracle, cache, metrics, calls>>

\* new ContextFileDiscovery(config)
NewContextFileDiscovery(config) ==
  /\ ncalls = 0
  /\ ncalls' = 1
  /\ LET valid == validateConfig(config)
     IN  /\ obs' = constructed("ContextFileDiscovery", config, valid)
         /\ cfg' = IF valid THEN config ELSE cfg
  /\ UNCHANGED <<unreadable, requireDefined, readdirReversed, dirs, files, mtime, now, oracle, cache, metrics, calls>>

HierarchyChoices ==
  {DEFAULT_CONTEXT_HIERARCHY, <<>>, <<"agents.md", "../secret.md">>,
   <<"docs/notes.md", "agents.md">>, <<".cursor/rules">>}
GlobalDirChoices == {<<".yelm", ".gemini">>, <<>>}
DepthChoices == {0, 1, ConfigDepthLimit, ConfigDepthLimit + 1}
DirsChoices == {0, 1, ConfigDirsLimit, ConfigDirsLimit + 1}

SettingsChoices ==
  {[hierarchy |-> h, globalDirs |-> g, maxDepth |-> d, maxDirs |-> n] :
     h \in HierarchyChoices, g \in GlobalDirChoices, d \in DepthChoices, n \in DirsChoices}
    \cup {[cacheEnabled |-> TRUE]}

ConfigChoices ==
  {[DEFAULT_CONTEXT_CONFIG EXCEPT !.hierarchy = h, !.globalDirs = g,
                                  !.maxDepth = d, !.maxDirs = n] :
     h \in HierarchyChoices, g \in GlobalDirChoices, d \in DepthChoices, n \in DirsChoices}

InitConstruct ==
  /\ files \in CacheTrees
  /\ dirs = TreeOf(files, TRUE, TRUE)
  /\ cfg = DEFAULT_CONTEXT_CONFIG
  /\ oracle = {}
  /\ unreadable = {}
  /\ requireDefined = TRUE
  /\ readdirReversed = FALSE
  /\ InitRest

NextConstruct ==
  \/ \E userSettings \in SettingsChoices : NewContextConfig(userSettings)
  \/ \E userSettings \in SettingsChoices : NewContextFileManager(userSettings)
  \/ \E config \in ConfigChoices : NewContextFileDiscovery(config)

SpecConstruct == InitConstruct /\ [][NextConstruct]_vars

\* The invalid hierarchies and limits: an empty hierarchy, empty globalDirs,
\* maxDepth < 1, maxDirs < 1, a hierarchy entry with ".." or with a "/" that
\* is not the registered .cursor/rules.
invalidConfig(c) ==
  \/ c.hierarchy = <<>>
  \/ c.globalDirs = <<>>
  \/ c.maxDepth < 1
  \/ c.maxDirs < 1
  \/ \E i \in 1..Len(c.hierarchy) :
       c.hierarchy[i] \in {"../secret.md", "docs/notes.md"}

\* C19: an invalid hierarchy or limit is rejected with ConfigurationError when
\* ContextConfig, ContextFileManager or ContextFileDiscovery is constructed
\* (for the first two, judged on the configuration built from the settings).
C19_InvalidConfigRejected ==
  (obs.op = "construct" /\ invalidConfig(obs.config)) =>
    /\ obs.rejected
    /\ obs.error = "ConfigurationError"

----------------------------------------------------------------------------
(* ContextConfig after construction: updateSettings, resetToDefaults and
   ContextFileManager.updateConfig *)

settingsChanged(op, previous, threw) ==
  [op |-> op, previous |-> previous, threw |-> threw,
   error |-> IF threw THEN "ConfigurationError" ELSE "none"]

\* ContextConfig.updateSettings(newSettings): this.config is assigned the built
\* configuration, then validateConfig() runs and may throw.
UpdateSettings(newSettings) ==
  /\ cfg' = buildConfig(newSettings)
  /\ obs' = settingsChanged("updateSettings", cfg, ~validateContextConfig(cfg'))
  /\ UNCHANGED <<unreadable, requireDefined, readdirReversed, dirs, files, mtime, now, oracle, cache, metrics, ncalls, calls>>

\* ContextConfig.resetToDefaults()
ResetToDefaults ==
  /\ cfg' = DEFAULT_CONTEXT_CONFIG
  /\ obs' = settingsChanged("resetToDefaults", cfg, FALSE)
  /\ UNCHANGED <<unreadable, requireDefined, readdirReversed, dirs, files, mtime, now, oracle, cache, metrics, ncalls, calls>>

\* ContextFileManager.updateConfig(newSettings): this.config.updateSettings,
\* then, unless that threw, a new ContextFileDiscovery (an empty cache and
\* zeroed metrics) built from getConfig().
UpdateConfig(newSettings) ==
  /\ cfg' = buildConfig(newSettings)
  /\ LET threw == ~validateContextConfig(cfg') \/ ~validateConfig(cfg')
     IN  /\ obs' = settingsChanged("updateConfig", cfg, threw)
         /\ cache' = IF threw THEN cache ELSE <<>>
         /\ metrics' = IF threw THEN metrics ELSE ZeroMetrics
  /\ UNCHANGED <<unreadable, requireDefined, readdirReversed, dirs, files, mtime, now, oracle, ncalls, calls>>

UpdateChoices ==
  {[hierarchy |-> h, maxDepth |-> d] : h \in HierarchyChoices, d \in DepthChoices}
    \cup {[cacheEnabled |-> FALSE], [maxDirs |-> 0], [maxDirs |-> ConfigDirsLimit]}

\* The ContextConfig objects a constructor returns: built from the settings
\* and accepted by validateConfig.
InitSettings ==
  /\ files = {}
  /\ dirs = TreeOf(files, TRUE, TRUE)
  /\ \E userSettings \in UpdateChoices :
       /\ cfg = buildConfig(userSettings)
       /\ validateContextConfig(cfg)
  /\ oracle = {}
  /\ unreadable = {}
  /\ requireDefined = TRUE
  /\ readdirReversed = FALSE
  /\ InitRest

NextSettings ==
  \/ \E newSettings \in UpdateChoices : UpdateSettings(newSettings)
  \/ ResetToDefaults
  \/ \E newSettings \in UpdateChoices : UpdateConfig(newSettings)

SpecSettings == InitSettings /\ [][NextSettings]_vars

SettingsOps == {"updateSettings", "resetToDefaults", "updateConfig"}

\* C35: after any sequence of ContextConfig operations (construction,
\* updateSettings, resetToDefaults, ContextFileManager.updateConfig), the
\* configuration getConfig() returns passes validation, and an update that
\* threw ConfigurationError left the previous configuration in place.
C35_ConfigStaysValid ==
  /\ validateContextConfig(cfg)
  /\ (obs.op \in SettingsOps /\ obs.threw) => cfg = obs.previous

----------------------------------------------------------------------------
(* MigrationService: legacy files and the migration plan *)

\* filePath.includes(path.join(homedir(), '.gemini'))
inGeminiDir(filePath) ==
  LET g == Append(homedir, ".gemini") IN
    Len(filePath) > Len(g) /\ SubSeq(filePath, 1, Len(g)) = g

\* checkForLegacyFile: <<>> (null) or the one LegacyFile record.
checkForLegacyFile(filePath) ==
  IF basename(filePath) = "GEMINI.md"
    THEN <<[path |-> filePath, suggestedName |-> "agents.md",
            suggestedPath |-> Append(dirname(filePath), "agents.md"),
            migrationType |-> "rename", priority |-> 1]>>
  ELSE IF inGeminiDir(filePath)
    THEN <<[path |-> filePath, suggestedName |-> basename(filePath),
            suggestedPath |-> Append(homedir, ".yelm")
                                \o relative(Append(homedir, ".gemini"), filePath),
            migrationType |-> "move", priority |-> 2]>>
  ELSE <<>>

\* fileExistsSync calls require('fs') inside its try block. Where the module
\* system defines no require (an ES module), the call throws a ReferenceError,
\* the catch swallows it and the answer is false whatever is on disk.
fileExistsSync(filePath) == requireDefined /\ exists(filePath)

\* The first loop of suggestMigration: one warning for every file whose
\* suggestedPath was already seen.
RECURSIVE conflictWarnings(_, _)
conflictWarnings(legacyFiles, targetPaths) ==
  IF legacyFiles = <<>>
    THEN <<>>
    ELSE (IF Head(legacyFiles).suggestedPath \in targetPaths
            THEN <<[text |-> "Multiple files would be migrated to ",
                    path |-> Head(legacyFiles).suggestedPath]>>
            ELSE <<>>)
         \o conflictWarnings(Tail(legacyFiles),
                             targetPaths \cup {Head(legacyFiles).suggestedPath})

\* The second loop: one warning for every file whose target exists.
RECURSIVE existsWarnings(_)
existsWarnings(legacyFiles) ==
  IF legacyFiles = <<>>
    THEN <<>>
    ELSE (IF fileExistsSync(Head(legacyFiles).suggestedPath)
            THEN <<[text |-> "Target file already exists: ",
                    path |-> Head(legacyFiles).suggestedPath]>>
            ELSE <<>>)
         \o existsWarnings(Tail(legacyFiles))

\* generateMigrationSummary: the migration types in order of first
\* appearance, each with its number of files (<<>>: "No files need migration").
generateMigrationSummary(legacyFiles) ==
  LET types == dedupe([i \in 1..Len(legacyFiles) |-> legacyFiles[i].migrationType], {})
  IN  [k \in 1..Len(types) |->
         [type |-> types[k],
          count |-> Cardinality({i \in 1..Len(legacyFiles) :
                                   legacyFiles[i].migrationType = types[k]})]]

suggestMigration(legacyFiles) ==
  LET warnings == conflictWarnings(legacyFiles, {}) \o existsWarnings(legacyFiles)
  IN  [files |-> legacyFiles,
       canAutoMigrate |-> warnings = <<>>,
       warnings |-> warnings,
       summary |-> generateMigrationSummary(legacyFiles)]

\* MigrationService.canAutoMigrate(plan)
canAutoMigrate(plan) == plan.canAutoMigrate /\ Len(plan.warnings) = 0

\* suggestMigration(files) called on a list of legacy files, and
\* canAutoMigrate asked of the plan.
SuggestMigration(legacyFiles) ==
  /\ ncalls = 0
  /\ ncalls' = 1
  /\ obs' = [op |-> "suggest", files |-> legacyFiles, plan |-> suggestMigration(legacyFiles),
             auto |-> canAutoMigrate(suggestMigration(legacyFiles)), threw |-> FALSE]
  /\ UNCHANGED <<unreadable, requireDefined, readdirReversed, dirs, files, mtime, now, cfg, oracle, cache, metrics, calls>>

\* fs.mkdir(targetDir, {recursive: true}) on file system fs: it fails when a
\* component of the path is a file, and otherwise makes every missing directory.
mkdirFails(fs, targetDir) == \E a \in Ancestors(targetDir) : a \in fs.files
mkdir(fs, targetDir) == [fs EXCEPT !.dirs = @ \cup Ancestors(targetDir)]

\* fs.rename of a file: the source must exist and the target must not be a
\* directory; an existing target file is replaced.
renameError(fs, from, to) ==
  IF from \notin fs.files THEN "ENOENT" ELSE IF to \in fs.dirs THEN "EISDIR" ELSE ""
rename(fs, from, to) == [fs EXCEPT !.files = (@ \ {from}) \cup {to}]

\* fs.copyFile
copyFile(fs, from, to) == [fs EXCEPT !.files = @ \cup {to}]

\* migrateFile(file) on file system fs: the error it throws ("" for none) and
\* the file system it leaves.
migrateFile(fs, file) ==
  LET targetDir == dirname(file.suggestedPath) IN
    IF mkdirFails(fs, targetDir)
      THEN [error |-> "ENOTDIR", fs |-> fs]
    ELSE IF file.migrationType \in {"rename", "move"}
      THEN IF renameError(mkdir(fs, targetDir), file.path, file.suggestedPath) # ""
             THEN [error |-> renameError(mkdir(fs, targetDir), file.path, file.suggestedPath),
                   fs |-> mkdir(fs, targetDir)]
             ELSE [error |-> "",
                   fs |-> rename(mkdir(fs, targetDir), file.path, file.suggestedPath)]
    ELSE IF file.migrationType = "copy"
      THEN IF renameError(mkdir(fs, targetDir), file.path, file.suggestedPath) # ""
             THEN [error |-> renameError(mkdir(fs, targetDir), file.path, file.suggestedPath),
                   fs |-> mkdir(fs, targetDir)]
             ELSE [error |-> "",
                   fs |-> copyFile(mkdir(fs, targetDir), file.path, file.suggestedPath)]
    ELSE [error |-> "INVALID_MIGRATION", fs |-> mkdir(fs, targetDir)]

\* The loop of executeMigration over plan.files from file system fs. steps
\* records, for every file in turn, whether migrateFile threw and the files on
\* disk after it.
RECURSIVE migrateAll(_, _)
migrateAll(planFiles, fs) ==
  IF planFiles = <<>>
    THEN [migrated |-> <<>>, failed |-> <<>>, fs |-> fs, steps |-> <<>>]
    ELSE LET m == migrateFile(fs, Head(planFiles))
             rest == migrateAll(Tail(planFiles), m.fs)
         IN  [migrated |-> (IF m.error = "" THEN <<Head(planFiles).path>> ELSE <<>>)
                             \o rest.migrated,
              failed |-> (IF m.error = ""
                            THEN <<>>
                            ELSE <<[file |-> Head(planFiles).path, error |-> m.error]>>)
                           \o rest.failed,
              fs |-> rest.fs,
              steps |-> <<[ok |-> m.error = "", files |-> m.fs.files]>> \o rest.steps]

\* An abort check that lets every plan through.
abortsNoPlan(plan, force) == FALSE

\* The abort check of executeMigration.
abortsMigration(plan, force) == ~plan.canAutoMigrate /\ ~force

executeMigration(plan, force, fs) ==
  IF abortsMigration(plan, force)
    THEN [success |-> FALSE,
          migrated |-> <<>>,
          failed |-> [i \in 1..Len(plan.files) |->
                        [file |-> plan.files[i].path,
                         error |-> "Migration requires manual intervention"]],
          aborted |-> TRUE, fs |-> fs, steps |-> <<>>]
    ELSE LET r == migrateAll(plan.files, fs)
         IN  [success |-> Len(r.failed) = 0,
              migrated |-> r.migrated,
              failed |-> r.failed,
              aborted |-> FALSE, fs |-> r.fs, steps |-> r.steps]

\* The directories whose entries differ between two file systems.
changedDirs(a, b) ==
  {d \in DirUniverse :
     {p \in a.files \cup a.dirs : Len(p) > 0 /\ dirname(p) = d}
       # {p \in b.files \cup b.dirs : Len(p) > 0 /\ dirname(p) = d}}

\* executeMigration(plan, force) on the plan suggestMigration returned.
ExecuteMigration(force) ==
  /\ obs.op = "suggest"
  /\ ncalls = 1
  /\ ncalls' = 2
  /\ LET before == [files |-> files, dirs |-> dirs]
         r == executeMigration(obs.plan, force, before)
     IN  /\ files' = r.fs.files
         /\ dirs' = r.fs.dirs
         /\ mtime' = [d \in DirUniverse |->
                        IF d \in changedDirs(before, r.fs) THEN mtime[d] + 1 ELSE mtime[d]]
         /\ obs' = [op |-> "execute", plan |-> obs.plan, force |-> force, before |-> before,
                    success |-> r.success, migrated |-> r.migrated, failed |-> r.failed,
                    aborted |-> r.aborted, steps |-> r.steps]
  /\ UNCHANGED <<unreadable, requireDefined, readdirReversed, now, cfg, oracle, cache, metrics, calls>>

\* scanDirectoryForLegacyFiles(dir, recursive, maxDepth, currentDepth)
RECURSIVE scanDirectoryForLegacyFiles(_, _, _, _)
RECURSIVE scanLegacyEntries(_, _, _, _)
scanLegacyEntries(entries, recursive, maxDepth, currentDepth) ==
  IF entries = <<>>
    THEN <<>>
    ELSE (IF isFile(Head(entries))
            THEN checkForLegacyFile(Head(entries))
          ELSE IF isDirectory(Head(entries)) /\ recursive
            THEN scanDirectoryForLegacyFiles(Head(entries), recursive, maxDepth,
                                             currentDepth + 1)
          ELSE <<>>)
         \o scanLegacyEntries(Tail(entries), recursive, maxDepth, currentDepth)

scanDirectoryForLegacyFiles(dir, recursive, maxDepth, currentDepth) ==
  IF ~exists(dir) \/ currentDepth > maxDepth \/ ~isDirectory(dir)
    THEN <<>>
    ELSE scanLegacyEntries(entriesOf(dir), recursive, maxDepth, currentDepth)

\* detectLegacyFiles(workingDir, options) with options.directories left out.
LegacyMaxDepth == 10

RECURSIVE scanAllForLegacyFiles(_, _, _)
scanAllForLegacyFiles(allDirectories, recursive, maxDepth) ==
  IF allDirectories = <<>>
    THEN <<>>
    ELSE scanDirectoryForLegacyFiles(Head(allDirectories), recursive, maxDepth, 0)
           \o scanAllForLegacyFiles(Tail(allDirectories), recursive, maxDepth)

\* detectLegacyFiles with options.directories given.
detectLegacyFilesIn(directories, recursive, maxDepth, includeGlobal) ==
  scanAllForLegacyFiles(directories \o (IF includeGlobal
                                          THEN <<Append(homedir, ".gemini"),
                                                 Append(homedir, ".yelm")>>
                                          ELSE <<>>),
                        recursive, maxDepth)

\* options.directories defaults to [workingDir].
detectLegacyFiles(workingDir, recursive, maxDepth, includeGlobal) ==
  detectLegacyFilesIn(<<workingDir>>, recursive, maxDepth, includeGlobal)

\* MigrationUtils.directoryNeedsMigration(directory)
directoryNeedsMigration(directory) ==
  Len(detectLegacyFiles(directory, FALSE, LegacyMaxDepth, TRUE)) > 0

NeedsDirs == {Home, Yelm, Gemini, Proj, Src, Lib}

DirectoryNeedsMigration(d) ==
  /\ ncalls = 0
  /\ ncalls' = 1
  /\ obs' = [op |-> "needsMigration", dir |-> d, answer |-> directoryNeedsMigration(d)]
  /\ UNCHANGED <<unreadable, requireDefined, readdirReversed, dirs, files, mtime, now, cfg, oracle, cache, metrics, calls>>

\* The legacy files of the model: what checkForLegacyFile makes of each path.
LegacyPaths == {GeminiGemini, GeminiAgents, YelmGemini, SrcGemini}
LegacyUniverse == {checkForLegacyFile(f)[1] : f \in LegacyPaths}

RECURSIVE listsUpTo(_, _)
listsUpTo(S, n) ==
  IF n = 0
    THEN {<<>>}
    ELSE listsUpTo(S, n - 1)
           \cup {Append(l, x) : l \in {m \in listsUpTo(S, n - 1) : Len(m) = n - 1}, x \in S}

\* A caller's own entry of type copy (LegacyFile.migrationType allows it).
CopyEntry == [path |-> SrcGemini, suggestedName |-> "agents.md", suggestedPath |-> SrcAgents,
              migrationType |-> "copy", priority |-> 1]
PlanUniverse == LegacyUniverse \cup {CopyEntry}

\* Legacy files that were removed after they had been detected.
GoneChoices == {{}, {SrcGemini}}

InitMigration ==
  /\ \E targets \in SUBSET {YelmAgents, SrcAgents}, gone \in GoneChoices :
       files = (LegacyPaths \ gone) \cup targets
  /\ dirs = TreeOf(files, TRUE, TRUE)
  /\ cfg = DEFAULT_CONTEXT_CONFIG
  /\ oracle = {}
  /\ unreadable = {}
  /\ requireDefined \in BOOLEAN
  /\ readdirReversed = FALSE
  /\ InitRest

NextMigration ==
  \/ \E l \in listsUpTo(PlanUniverse, MaxLegacy) : SuggestMigration(l)
  \/ \E force \in BOOLEAN : ExecuteMigration(force)
  \/ \E d \in NeedsDirs : DirectoryNeedsMigration(d)

SpecMigration == InitMigration /\ [][NextMigration]_vars

\* Two entries of the list, for different files, have the same suggestedPath.
colliding(l, i, j) ==
  i < j /\ l[i].path # l[j].path /\ l[i].suggestedPath = l[j].suggestedPath

\* Some warning of the plan names the file (holds its path).
named(plan, file) == \E k \in 1..Len(plan.warnings) : plan.warnings[k].path = file.path

\* C20: for every list of legacy files in which two entries have the same
\* suggestedPath, suggestMigration returns a plan with canAutoMigrate = false
\* whose warnings name both colliding files.
C20_CollisionNamesBoth ==
  obs.op = "suggest" =>
    \A i, j \in 1..Len(obs.files) :
      colliding(obs.files, i, j) =>
        /\ ~obs.plan.canAutoMigrate
        /\ named(obs.plan, obs.files[i])
        /\ named(obs.plan, obs.files[j])

\* C21: canAutoMigrate(suggestMigration(files)) is true if and only if no two
\* entries share a suggestedPath and no suggestedPath exists on disk at
\* planning time; suggestMigration itself never throws on such conflicts.
C21_AutoIffNoConflict ==
  obs.op = "suggest" =>
    /\ ~obs.threw
    /\ obs.auto <=>
         /\ \A i, j \in 1..Len(obs.files) :
              i # j => obs.files[i].suggestedPath # obs.files[j].suggestedPath
         /\ \A i \in 1..Len(obs.files) : obs.files[i].suggestedPath \notin files \cup dirs

\* The paths in a list of migrated files, and in a list of failures.
migratedPaths(r) == {r.migrated[k] : k \in 1..Len(r.migrated)}
failedPaths(r) == {r.failed[k].file : k \in 1..Len(r.failed)}

\* C22: after executeMigration runs past the abort check, every file of the
\* plan appears in exactly one of migrated and failed, success is true if and
\* only if failed is empty, and a failure of one file leaves every file
\* migrated earlier in the same call at its new path (no rollback).
C22_EachFileOneOutcome ==
  obs.op = "execute" /\ ~obs.aborted =>
    /\ \A i \in 1..Len(obs.plan.files) :
         (obs.plan.files[i].path \in migratedPaths(obs))
           # (obs.plan.files[i].path \in failedPaths(obs))
    /\ obs.success <=> obs.failed = <<>>
    /\ \A k \in 2..Len(obs.steps) :
         ~obs.steps[k].ok =>
           \A i \in 1..(k - 1) :
             obs.steps[i].ok /\ obs.plan.files[i].suggestedPath \in obs.steps[k - 1].files
               => obs.plan.files[i].suggestedPath \in obs.steps[k].files

\* C23: executeMigration(plan, force = false) on a plan whose canAutoMigrate is
\* false changes nothing on the file system and returns success = false,
\* migrated = [] and every plan file listed in failed.
C23_AbortChangesNothing ==
  obs.op = "execute" /\ ~obs.force /\ ~canAutoMigrate(obs.plan) =>
    /\ files = obs.before.files
    /\ dirs = obs.before.dirs
    /\ ~obs.success
    /\ obs.migrated = <<>>
    /\ Len(obs.failed) = Len(obs.plan.files)
    /\ \A i \in 1..Len(obs.plan.files) : obs.failed[i].file = obs.plan.files[i].path

\* A plan that would change the file system is aborted.
C23_Witness ==
  /\ obs.op = "execute" /\ ~obs.force /\ ~canAutoMigrate(obs.plan)
  /\ Len(obs.plan.files) >= 2
  /\ migrateAll(obs.plan.files, obs.before).fs # obs.before

\* Directory d itself directly contains a legacy file.
holdsLegacyFile(d) == \E f \in files : dirname(f) = d /\ checkForLegacyFile(f) # <<>>

\* C25: MigrationUtils.directoryNeedsMigration(d) returns true if and only if
\* directory d itself directly contains a legacy file; files outside d never
\* change the answer.
C25_NeedsMigrationIsLocal ==
  obs.op = "needsMigration" => (obs.answer <=> holdsLegacyFile(obs.dir))

----------------------------------------------------------------------------
(* detectLegacyFiles called on its own *)

\* detectLegacyFiles(workingDir, {recursive, directories, includeGlobal});
\* directories is the empty set when the option is left out, and the plan is
\* the one suggestMigration builds from the result.
DetectLegacyFiles(workingDir, directories, recursive, includeGlobal) ==
  /\ ncalls = 0
  /\ ncalls' = 1
  /\ LET given == IF directories = {} THEN <<workingDir>> ELSE CHOOSE l \in directories : TRUE
         result == detectLegacyFilesIn(given, recursive, LegacyMaxDepth, includeGlobal)
     IN  obs' = [op |-> "detect", wd |-> workingDir, directories |-> given,
                 recursive |-> recursive, includeGlobal |-> includeGlobal,
                 result |-> result, plan |-> suggestMigration(result)]
  /\ UNCHANGED <<unreadable, requireDefined, readdirReversed, dirs, files, mtime, now, cfg, oracle, cache, metrics, calls>>

DetectWorkingDirs == {Home, Gemini, Yelm, Proj, Src}
DirectoryOptions == {{}, {<<Src>>}, {<<Proj, Lib>>}}

InitDetect ==
  /\ \E fs \in SUBSET (LegacyPaths \cup {YelmAgents, ProjClaude}) : files = fs
  /\ dirs = TreeOf(files, TRUE, TRUE) \cup {Yelm, Gemini}
  /\ cfg = DEFAULT_CONTEXT_CONFIG
  /\ oracle = {}
  /\ unreadable = {}
  /\ requireDefined = TRUE
  /\ readdirReversed = FALSE
  /\ InitRest

NextDetect ==
  \E w \in DetectWorkingDirs, ds \in DirectoryOptions, recursive \in BOOLEAN,
     includeGlobal \in BOOLEAN : DetectLegacyFiles(w, ds, recursive, includeGlobal)

SpecDetect == InitDetect /\ [][NextDetect]_vars

\* C39: detectLegacyFiles returns each legacy file path at most once for every
\* combination of workingDir, directories and includeGlobal, so the plan built
\* from its result warns of a collision only for two different files.
C39_EachPathOnce ==
  obs.op = "detect" =>
    /\ \A i, j \in 1..Len(obs.result) : i # j => obs.result[i].path # obs.result[j].path
    /\ conflictWarnings(obs.result, {}) # <<>> =>
         \E i, j \in 1..Len(obs.result) : colliding(obs.result, i, j)

\* Another process creates file f while a plan waits to be executed.
CreateTarget(f) ==
  /\ obs.op = "suggest"
  /\ f \notin files
  /\ dirname(f) \in dirs
  /\ files' = files \cup {f}
  /\ mtime' = [mtime EXCEPT ![dirname(f)] = @ + 1]
  /\ UNCHANGED <<unreadable, requireDefined, readdirReversed, dirs, now, cfg, oracle, cache, metrics, ncalls, obs, calls>>

RaceTargets == {YelmAgents, SrcAgents}

InitRace ==
  /\ InitMigration
  /\ requireDefined = TRUE

NextRace ==
  \/ \E l \in listsUpTo(PlanUniverse, MaxLegacy) : SuggestMigration(l)
  \/ \E f \in RaceTargets : CreateTarget(f)
  \/ \E force \in BOOLEAN : ExecuteMigration(force)

SpecRace == InitRace /\ [][NextRace]_vars

\* The files on disk when executeMigration reaches the k-th file of the plan.
filesBeforeStep(k) == IF k = 1 THEN obs.before.files ELSE obs.steps[k - 1].files

\* C36: executeMigration(plan, force = false) on a plan whose canAutoMigrate is
\* true never replaces a file that exists at a suggestedPath when the rename
\* or copy is performed, even if that file appeared after the plan was made.
C36_NeverReplacesTarget ==
  (obs.op = "execute" /\ ~obs.force /\ canAutoMigrate(obs.plan)) =>
    \A k \in 1..Len(obs.steps) :
      obs.steps[k].ok => obs.plan.files[k].suggestedPath \notin filesBeforeStep(k)

----------------------------------------------------------------------------
(* The legacy discovery of utils/memoryDiscovery.ts *)

\* The constants memoryDiscovery imports from tools/memoryTool.
CONTEXT_FILE_HIERARCHY == <<"agents.md", "CLAUDE.md", "GEMINI.md", ".cursor/rules">>
YELM_CONFIG_DIR == ".yelm"
GEMINI_CONFIG_DIR == ".gemini"

MAX_DIRECTORIES_TO_SCAN_FOR_MEMORY == 200

\* bfsFileSearch(rootDir, {fileName, maxDirs, fileService}): the files called
\* fileName in the tree under rootDir, found by a breadth-first traversal of at
\* most maxDirs directories that leaves out what the file service excludes.
bfsFileSearch(rootDir, fileName, maxDirs, fileService) ==
  LET scan == scanDirectory(rootDir, [maxDepth |-> LegacyMaxDepth, maxDirs |-> maxDirs,
                                      ignorePatterns |-> {}, oracle |-> fileService])
      found == SelectSeq(scan.files, LAMBDA f : f.name = fileName)
  IN  [k \in 1..Len(found) |-> found[k].path]

\* findContextFileInDirectory: the first name of the hierarchy (its last entry
\* left out) that fs.access finds in the directory, else <dir>/.cursor/rules
\* when that is there, else <<>> (null).
RECURSIVE firstAccessible(_, _, _)
firstAccessible(directory, names, i) ==
  IF i > Len(names)
    THEN <<>>
    ELSE IF exists(Append(directory, names[i]))
      THEN <<Append(directory, names[i])>>
      ELSE firstAccessible(directory, names, i + 1)

findContextFileInDirectory(directory) ==
  LET standard == firstAccessible(directory,
                                  SubSeq(CONTEXT_FILE_HIERARCHY, 1,
                                         Len(CONTEXT_FILE_HIERARCHY) - 1), 1)
      cursorRulesPath == directory \o <<".cursor", "rules">>
  IN  IF standard # <<>> THEN standard
      ELSE IF exists(cursorRulesPath) THEN <<cursorRulesPath>>
      ELSE <<>>

\* findProjectRoot of memoryDiscovery: the nearest directory, from startDir
\* up to the root, that holds a .git directory; {} for null.
RECURSIVE legacyFindProjectRoot(_)
legacyFindProjectRoot(currentDir) ==
  IF isDirectory(Append(currentDir, ".git"))
    THEN {currentDir}
    ELSE IF dirname(currentDir) = currentDir
      THEN {}
      ELSE legacyFindProjectRoot(dirname(currentDir))

\* The upward scan: upwardPaths after the loop (unshift puts the file of the
\* outermost directory first).
RECURSIVE scanUpward(_, _, _, _)
scanUpward(currentDir, ultimateStopDir, globalContextFile, upwardPaths) ==
  IF currentDir = dirname(currentDir)
    THEN upwardPaths
    ELSE IF currentDir \in {Append(homedir, YELM_CONFIG_DIR), Append(homedir, GEMINI_CONFIG_DIR)}
      THEN scanUpward(dirname(currentDir), ultimateStopDir, globalContextFile, upwardPaths)
      ELSE LET contextFile == findContextFileInDirectory(currentDir)
               up == IF contextFile # <<>> /\ contextFile # globalContextFile
                       THEN contextFile \o upwardPaths
                       ELSE upwardPaths
           IN  IF currentDir = ultimateStopDir
                 THEN up
                 ELSE scanUpward(dirname(currentDir), ultimateStopDir, globalContextFile, up)

\* A Set of paths in insertion order: add keeps the first occurrence.
setAdd(set, p) == IF \E k \in 1..Len(set) : set[k] = p THEN set ELSE Append(set, p)

RECURSIVE setAddAll(_, _)
setAddAll(set, ps) == IF ps = <<>> THEN set ELSE setAddAll(setAdd(set, Head(ps)), Tail(ps))

\* The loop over the paths found for one file name of the downward scan.
RECURSIVE addFoundPaths(_, _, _)
addFoundPaths(foundPaths, downwardPaths, allPaths) ==
  IF foundPaths = <<>>
    THEN downwardPaths
    ELSE LET dir == dirname(Head(foundPaths))
             taken == \/ \E k \in 1..Len(downwardPaths) : dirname(downwardPaths[k]) = dir
                      \/ \E k \in 1..Len(allPaths) : dirname(allPaths[k]) = dir
         IN  addFoundPaths(Tail(foundPaths),
                           IF taken THEN downwardPaths ELSE setAdd(downwardPaths, Head(foundPaths)),
                           allPaths)

\* The loop over the names of the hierarchy, the last entry left out.
RECURSIVE scanDownward(_, _, _, _, _)
scanDownward(resolvedCwd, i, downwardPaths, allPaths, fileService) ==
  IF i > Len(CONTEXT_FILE_HIERARCHY) - 1
    THEN downwardPaths
    ELSE scanDownward(resolvedCwd, i + 1,
                      addFoundPaths(bfsFileSearch(resolvedCwd, CONTEXT_FILE_HIERARCHY[i],
                                                  MAX_DIRECTORIES_TO_SCAN_FOR_MEMORY,
                                                  fileService),
                                    downwardPaths, allPaths),
                      allPaths, fileService)

\* The loop over the files called rules.
RECURSIVE addCursorRules(_, _, _)
addCursorRules(cursorDirs, downwardPaths, allPaths) ==
  IF cursorDirs = <<>>
    THEN downwardPaths
    ELSE LET rulesPath == Head(cursorDirs)
             parentDir == dirname(rulesPath)
             contextDir == dirname(parentDir)
             taken == \/ \E k \in 1..Len(downwardPaths) :
                           dirname(dirname(downwardPaths[k])) = contextDir
                      \/ \E k \in 1..Len(allPaths) :
                           dirname(dirname(allPaths[k])) = contextDir
         IN  addCursorRules(Tail(cursorDirs),
                            IF basename(parentDir) = ".cursor" /\ ~taken
                              THEN setAdd(downwardPaths, rulesPath)
                              ELSE downwardPaths,
                            allPaths)

getContextFilePathsHierarchy(currentWorkingDirectory, userHomePath, fileService, extensionContextFilePaths) ==
  LET yelmConfigDir == Append(userHomePath, YELM_CONFIG_DIR)
      geminiConfigDir == Append(userHomePath, GEMINI_CONFIG_DIR)
      globalContextFile ==
        IF findContextFileInDirectory(yelmConfigDir) # <<>>
          THEN findContextFileInDirectory(yelmConfigDir)
          ELSE findContextFileInDirectory(geminiConfigDir)
      projectRoot == legacyFindProjectRoot(currentWorkingDirectory)
      ultimateStopDir == IF projectRoot # {}
                           THEN dirname(CHOOSE r \in projectRoot : TRUE)
                           ELSE dirname(userHomePath)
      upwardPaths == scanUpward(currentWorkingDirectory, ultimateStopDir,
                                globalContextFile, <<>>)
      afterUpward == setAddAll(globalContextFile, upwardPaths)
      byName == scanDownward(currentWorkingDirectory, 1, <<>>, afterUpward, fileService)
      downwardPaths ==
        addCursorRules(bfsFileSearch(currentWorkingDirectory, "rules",
                                     MAX_DIRECTORIES_TO_SCAN_FOR_MEMORY, fileService),
                       byName, afterUpward)
  IN  setAddAll(setAddAll(afterUpward, downwardPaths), extensionContextFilePaths)

\* getContextFilePathsHierarchy(cwd, homedir(), debugMode, fileService) called
\* with no extension files.
GetContextFilePathsHierarchy(cwd) ==
  /\ ncalls = 0
  /\ cwd \in dirs
  /\ ncalls' = 1
  /\ obs' = [op |-> "legacy", wd |-> cwd,
             projectRoot |-> legacyFindProjectRoot(cwd),
             result |-> getContextFilePathsHierarchy(cwd, homedir, oracle, <<>>)]
  /\ UNCHANGED <<unreadable, requireDefined, readdirReversed, dirs, files, mtime, now, cfg, oracle, cache, metrics, calls>>

LegacyFiles == {YelmAgents, GeminiGemini, HomeAgents, ProjClaude, SrcAgents, SrcGemini,
                CursorRules, LibClaude}
LegacyWorkingDirs == {Home, Proj, Src, Lib}

InitLegacy ==
  /\ files \in SUBSET LegacyFiles
  /\ \E git \in BOOLEAN, lib \in BOOLEAN : dirs = TreeOf(files, git, lib)
  /\ cfg = DEFAULT_CONTEXT_CONFIG
  /\ oracle = {}
  /\ unreadable = {}
  /\ requireDefined = TRUE
  /\ readdirReversed = FALSE
  /\ InitRest

NextLegacy ==
  \/ \E cwd \in LegacyWorkingDirs : GetContextFilePathsHierarchy(cwd)
  \/ \E wd \in LegacyWorkingDirs : ncalls = 0 /\ Discover(wd, <<>>)

SpecLegacy == InitLegacy /\ [][NextLegacy]_vars

\* The directory a context file counts for: <dir> for <dir>/.cursor/rules.
contextDirOf(p) ==
  IF Len(p) >= 2 /\ basename(p) = "rules" /\ basename(dirname(p)) = ".cursor"
    THEN dirname(dirname(p))
    ELSE dirname(p)

\* The indices of the hierarchy whose file is present in directory d.
legacyPresent(d) ==
  {i \in 1..Len(CONTEXT_FILE_HIERARCHY) :
     isFile(resolveContextFilePath(CONTEXT_FILE_HIERARCHY[i], d))}

\* C24: the legacy getContextFilePathsHierarchy returns at most one context
\* file per directory, the highest-priority one present, across its global,
\* upward and downward steps, where <dir>/.cursor/rules counts as a file of
\* <dir> (a directory holding both agents.md and .cursor/rules contributes
\* only agents.md).
C24_LegacyOnePerDirectory ==
  obs.op = "legacy" =>
    \A d \in dirs :
      LET here == {k \in 1..Len(obs.result) : contextDirOf(obs.result[k]) = d} IN
        /\ Cardinality(here) <= 1
        /\ \A k \in here :
             /\ legacyPresent(d) # {}
             /\ obs.result[k] =
                  resolveContextFilePath(
                    CONTEXT_FILE_HIERARCHY[CHOOSE i \in legacyPresent(d) :
                                             \A j \in legacyPresent(d) : i <= j], d)

\* Directory a is a strict ancestor of directory d.
strictAncestor(a, d) == a # d /\ a \in Ancestors(d)

\* C26: the upward walk, in ContextFileDiscovery.discoverProjectFiles and in
\* the legacy getContextFilePathsHierarchy, never inspects a directory above
\* the project boundary: when an ancestor contains .git, no file from a
\* directory that is a strict ancestor of that project root is returned.
C26_NothingAboveProjectRoot ==
  /\ obs.op = "legacy" =>
       \A r \in obs.projectRoot : \A k \in 1..Len(obs.result) :
         ~strictAncestor(contextDirOf(obs.result[k]), r)
  /\ obs.op = "discover" =>
       \A r \in findProjectRoot(obs.wd) : \A k \in 1..Len(obs.result) :
         ~strictAncestor(contextDirOf(obs.result[k].path), r)

----------------------------------------------------------------------------
(* Interleaved discover calls: each await of the file system is a point where
   other calls, clearCache and the file system itself may act. *)

IdleCall == [pc |-> "idle", wd |-> Root, held |-> <<>>, idx |-> 0, results |-> <<>>]

\* discover up to the first await of isCacheValid: no entry or an entry too old
\* is a miss and leads to a fresh pass; otherwise the call holds the entry and
\* starts to stat its recorded directories.
StartDiscover(c, workingDir) ==
  /\ calls[c].pc = "idle"
  /\ cfg.cacheEnabled
  /\ ncalls < MaxCalls
  /\ ncalls' = ncalls + 1
  /\ LET i == cacheIndex(cache, workingDir) IN
       IF i = 0
         THEN /\ metrics' = [metrics EXCEPT !.misses = @ + 1]
              /\ cache' = cache
              /\ calls' = [calls EXCEPT ![c] = [IdleCall EXCEPT !.pc = "fresh",
                                                               !.wd = workingDir]]
       ELSE IF jsGreater(now - cache[i].timestamp, cfg.maxCacheAge)
         THEN /\ metrics' = [metrics EXCEPT !.misses = @ + 1]
              /\ cache' = cacheDelete(cache, workingDir)
              /\ calls' = [calls EXCEPT ![c] = [IdleCall EXCEPT !.pc = "fresh",
                                                               !.wd = workingDir]]
         ELSE /\ metrics' = metrics
              /\ cache' = [cache EXCEPT ![i].lastAccessed = now]
              /\ calls' = [calls EXCEPT ![c] = [IdleCall EXCEPT !.pc = "validating",
                                                  !.wd = workingDir,
                                                  !.held = cache[i].dirModTimes,
                                                  !.idx = 1]]
  /\ obs' = [op |-> "start"]
  /\ UNCHANGED <<unreadable, requireDefined, readdirReversed, dirs, files, mtime, now, cfg, oracle>>

\* One fs.stat of isCacheValid's loop resolves. After the last one the call
\* counts a hit and discover reads this.cache.get(cacheKey)!.results.
CheckDirectory(c) ==
  /\ calls[c].pc = "validating"
  /\ LET call == calls[c] IN
       IF ~dirUnchanged(call.held[call.idx])
         THEN /\ cache' = cacheDelete(cache, call.wd)
              /\ metrics' = metrics
              /\ calls' = [calls EXCEPT ![c].pc = "fresh"]
       ELSE IF call.idx < Len(call.held)
         THEN /\ cache' = cache
              /\ metrics' = metrics
              /\ calls' = [calls EXCEPT ![c].idx = @ + 1]
       ELSE /\ cache' = cache
            /\ metrics' = [metrics EXCEPT !.hits = @ + 1]
            /\ calls' = IF cacheIndex(cache, call.wd) = 0
                           THEN [calls EXCEPT ![c].pc = "threw"]
                           ELSE [calls EXCEPT ![c].pc = "done",
                                   ![c].results = cache[cacheIndex(cache, call.wd)].results]
  /\ obs' = [op |-> "stat"]
  /\ UNCHANGED <<unreadable, requireDefined, readdirReversed, dirs, files, mtime, now, cfg, oracle, ncalls>>

\* The fresh pass of discover (steps 1 to 3 and the sort).
FreshPass(c) ==
  /\ calls[c].pc = "fresh"
  /\ calls' = [calls EXCEPT ![c].pc = "caching",
                             ![c].results = freshDiscover(calls[c].wd, <<>>, oracle)]
  /\ obs' = [op |-> "fresh"]
  /\ UNCHANGED <<unreadable, requireDefined, readdirReversed, dirs, files, mtime, now, cfg, oracle, cache, metrics, ncalls>>

\* cacheResults, then discover returns the fresh list.
StoreResults(c) ==
  /\ calls[c].pc = "caching"
  /\ LET w == cacheResults(cache, metrics, calls[c].wd, calls[c].wd,
                           calls[c].results, ncalls + c)
     IN  /\ cache' = w.cache
         /\ metrics' = w.metrics
  /\ calls' = [calls EXCEPT ![c].pc = "done"]
  /\ obs' = [op |-> "store"]
  /\ UNCHANGED <<unreadable, requireDefined, readdirReversed, dirs, files, mtime, now, cfg, oracle, ncalls>>

\* The caller receives the list; the slot is free for another call.
ReturnResults(c) ==
  /\ calls[c].pc = "done"
  /\ calls' = [calls EXCEPT ![c] = IdleCall]
  /\ obs' = [op |-> "return", wd |-> calls[c].wd, result |-> calls[c].results]
  /\ UNCHANGED <<unreadable, requireDefined, readdirReversed, dirs, files, mtime, now, cfg, oracle, cache, metrics, ncalls>>

ConcWorkingDirs == {Src, Lib}
ConcTouchDirs == {Src}
CallIds == 1..MaxInFlight

InitConcurrent ==
  /\ files \in CacheTrees
  /\ dirs = TreeOf(files, TRUE, TRUE)
  /\ cfg \in {DEFAULT_CONTEXT_CONFIG,
              buildConfig([hierarchy |-> DEFAULT_CONTEXT_HIERARCHY, cacheEnabled |-> TRUE])}
  /\ oracle = {}
  /\ unreadable = {}
  /\ requireDefined = TRUE
  /\ readdirReversed = FALSE
  /\ mtime = [d \in DirUniverse |-> 0]
  /\ now = 0
  /\ cache = <<>>
  /\ metrics = ZeroMetrics
  /\ ncalls = 0
  /\ obs = NoObs
  /\ calls = [c \in CallIds |-> IdleCall]

NextConcurrent ==
  \/ \E c \in CallIds, w \in ConcWorkingDirs : StartDiscover(c, w)
  \/ \E c \in CallIds : CheckDirectory(c)
  \/ \E c \in CallIds : FreshPass(c)
  \/ \E c \in CallIds : StoreResults(c)
  \/ \E c \in CallIds : ReturnResults(c)
  \/ \E d \in ConcTouchDirs : Touch(d)
  \/ Tick
  \/ clearCache

SpecConcurrent == InitConcurrent /\ [][NextConcurrent]_vars

\* C9: under any interleaving of discover calls on one instance with caching
\* enabled, with clearCache and evictions in between, no call throws because
\* the entry it validated was removed while it awaited the file system.
C9_NoCallThrows == \A c \in DOMAIN calls : calls[c].pc # "threw"

====
